---- MODULE Spec2Model ----
(***************************************************************************)
(* Blog REST API on PostgreSQL: users, posts, JWT authentication.          *)
(* The store is the two tables of createTable.sql; every HTTP request is   *)
(* one action that runs the route's middleware chain and its controller.   *)
(* JavaScript strings whose characters matter (username, email, password,  *)
(* title, query parameters) are sequences of one-character strings; the    *)
(* values undefined and null are the one-element sequences below.          *)
(***************************************************************************)
EXTENDS Integers, Sequences, FiniteSets, TLC

VARIABLES users, userSeq, posts, postSeq, tokens, now, lastReq, response,
          qb, built, flight, mig

vars ==
  <<users, userSeq, posts, postSeq, tokens, now, lastReq, response, qb, built, flight,
    mig>>

(* ------------------------------ bounds --------------------------------- *)
MaxUserSeq == 3
MaxPostSeq == 2
MaxClock == 1
MaxParamCount == 3
MaxFlight == 2
MaxRuns == 3

(* ------------------------- JavaScript values --------------------------- *)
Undefined == <<"undefined">>
Null == <<"null">>

Truthy(v) == v # Undefined /\ v # Null /\ v # <<>>

LowerSeq ==
  <<"a", "b", "c", "d", "e", "f", "g", "h", "i", "j", "k", "l", "m",
    "n", "o", "p", "q", "r", "s", "t", "u", "v", "w", "x", "y", "z">>

UpperSeq ==
  <<"A", "B", "C", "D", "E", "F", "G", "H", "I", "J", "K", "L", "M",
    "N", "O", "P", "Q", "R", "S", "T", "U", "V", "W", "X", "Y", "Z">>

LowerChars == {LowerSeq[i] : i \in DOMAIN LowerSeq}
UpperChars == {UpperSeq[i] : i \in DOMAIN UpperSeq}
DigitChars == {"0", "1", "2", "3", "4", "5", "6", "7", "8", "9"}
SpaceChars == {" "}

WordChar(c) == c \in LowerChars \cup UpperChars \cup DigitChars \cup {"_"}

ToLower(c) ==
  IF c \in UpperChars THEN LowerSeq[CHOOSE i \in DOMAIN UpperSeq : UpperSeq[i] = c]
  ELSE c

DigitSeq == <<"0", "1", "2", "3", "4", "5", "6", "7", "8", "9">>

DigitVal(c) == CHOOSE d \in 0..9 : DigitSeq[d + 1] = c

RECURSIVE NumStr(_)
NumStr(n) ==
  IF n < 10 THEN <<DigitSeq[n + 1]>>
  ELSE NumStr(n \div 10) \o <<DigitSeq[(n % 10) + 1]>>

(* bcryptjs: hash(plain, salt) yields a string with the "$2a$" prefix that *)
(* compare(plain, hash) recognises; hashing a non-string rejects.          *)
BcryptHash(s) == <<"$2a$">> \o s

BcryptCompare(candidate, hash) == hash = BcryptHash(candidate)

IsString(v) == v # Undefined /\ v # Null

(* ----------------------------- validation ------------------------------ *)
MinUsernameLen == 3
MaxUsernameLen == 50
MinPasswordLen == 6
MaxNameLen == 50
MaxTitleLen == 255

UsernameRegex(s) == s # <<>> /\ \A i \in DOMAIN s : WordChar(s[i])

NoSpaceAt(s) == \A i \in DOMAIN s : s[i] \notin SpaceChars /\ s[i] # "@"

EmailRegex(s) ==
  \E a \in 2..Len(s) :
    /\ s[a] = "@"
    /\ NoSpaceAt(SubSeq(s, 1, a - 1))
    /\ NoSpaceAt(SubSeq(s, a + 1, Len(s)))
    /\ \E d \in (a + 2)..(Len(s) - 1) : s[d] = "."

PasswordRegex(s) ==
  /\ \E i \in DOMAIN s : s[i] \in LowerChars
  /\ \E i \in DOMAIN s : s[i] \in UpperChars
  /\ \E i \in DOMAIN s : s[i] \in DigitChars

validateRegistration(body) ==
  (IF ~Truthy(body.username) THEN <<"Username is required">>
   ELSE IF Len(body.username) < MinUsernameLen \/ Len(body.username) > MaxUsernameLen
     THEN <<"Username must be between 3 and 50 characters">>
   ELSE IF ~UsernameRegex(body.username)
     THEN <<"Username can only contain letters, numbers, and underscores">>
   ELSE <<>>)
  \o
  (IF ~Truthy(body.email) THEN <<"Email is required">>
   ELSE IF ~EmailRegex(body.email) THEN <<"Please provide a valid email address">>
   ELSE <<>>)
  \o
  (IF ~Truthy(body.password) THEN <<"Password is required">>
   ELSE IF Len(body.password) < MinPasswordLen
     THEN <<"Password must be at least 6 characters long">>
   ELSE IF ~PasswordRegex(body.password)
     THEN <<"Password must contain at least one uppercase letter, one lowercase letter, and one number">>
   ELSE <<>>)
  \o
  (IF Truthy(body.firstName) /\ Len(body.firstName) > MaxNameLen
     THEN <<"First name cannot exceed 50 characters">> ELSE <<>>)
  \o
  (IF Truthy(body.lastName) /\ Len(body.lastName) > MaxNameLen
     THEN <<"Last name cannot exceed 50 characters">> ELSE <<>>)

validateLogin(body) ==
  (IF ~Truthy(body.email) THEN <<"Email is required">> ELSE <<>>)
  \o
  (IF ~Truthy(body.password) THEN <<"Password is required">> ELSE <<>>)

PostStatuses == {<<"draft">>, <<"published">>, <<"archived">>}

validatePost(body) ==
  (IF ~Truthy(body.title) THEN <<"Title is required">>
   ELSE IF Len(body.title) > MaxTitleLen THEN <<"Title cannot exceed 255 characters">>
   ELSE <<>>)
  \o
  (IF ~Truthy(body.content) THEN <<"Content is required">> ELSE <<>>)
  \o
  (IF Truthy(body.status) /\ body.status \notin PostStatuses
     THEN <<"Status must be one of: draft, published, archived">> ELSE <<>>)


(* -------------------------- store: users table ------------------------- *)
(* pg sends an undefined query parameter as NULL.                          *)
SqlParam(v) == IF v = Undefined THEN Null ELSE v

UserColumns ==
  {"id", "username", "email", "password", "first_name", "last_name",
   "avatar_url", "is_active", "created_at", "updated_at"}

UserProp(col) ==
  CASE col = "first_name" -> "firstName" [] col = "last_name" -> "lastName"
    [] col = "avatar_url" -> "avatarUrl" [] col = "is_active" -> "isActive"
    [] col = "created_at" -> "createdAt" [] col = "updated_at" -> "updatedAt"
    [] OTHER -> col

UserCol(prop) == CHOOSE col \in UserColumns : UserProp(col) = prop

(* new User(data): a property whose column the row lacks is undefined,     *)
(* which is the property being absent from the object here.                *)
NewUser(data) == [p \in {UserProp(c) : c \in DOMAIN data} |-> data[UserCol(p)]]

toJSONWhole(user) == user

(* const { password, ...userWithoutPassword } = this                       *)
toJSON(user) == [p \in (DOMAIN user) \ {"password"} |-> user[p]]

UserUniqueAmongActive(tbl, username, email) ==
  {c \in {"users_username_key", "users_email_key"} :
     \E i \in DOMAIN tbl :
       /\ tbl[i].is_active
       /\ \/ c = "users_username_key" /\ tbl[i].username = username
          \/ c = "users_email_key" /\ tbl[i].email = email}

(* UNIQUE constraints of the users table, over every row, active or not.   *)
UserUniqueViolations(tbl, username, email) ==
  {c \in {"users_username_key", "users_email_key"} :
     \E i \in DOMAIN tbl :
       \/ c = "users_username_key" /\ tbl[i].username = username
       \/ c = "users_email_key" /\ tbl[i].email = email}

PgError(code, constraint) == [code |-> code, constraint |-> constraint, name |-> "error", message |-> "pg"]

JsError(name, message) == [code |-> "", constraint |-> "", name |-> name, message |-> message]

Thrown(err) == [ok |-> FALSE, err |-> err]

UserInsertUnchecked(tbl, seq, username, email, password, first, last, t, c) ==
  LET row == [id |-> seq, username |-> username, email |-> email,
              password |-> password, first_name |-> SqlParam(first),
              last_name |-> SqlParam(last), avatar_url |-> Null,
              is_active |-> TRUE, created_at |-> t, updated_at |-> t]
  IN [ok |-> TRUE, user |-> NewUser(row),
      users |-> tbl @@ (seq :> row), userSeq |-> seq + 1]

(* User.create: hashes the password it is given, then INSERT ... RETURNING.*)
(* The id sequence advances on every INSERT that is attempted. c is the    *)
(* constraint the store reports when several are violated at once.         *)
UserInsert(tbl, seq, username, email, password, first, last, t, c) ==
  IF SqlParam(username) = Null \/ SqlParam(email) = Null \/ SqlParam(password) = Null
    THEN Thrown(PgError("23502", "")) @@ [users |-> tbl, userSeq |-> seq + 1]
  ELSE IF UserUniqueViolations(tbl, username, email) # {}
    THEN Thrown(PgError("23505", c)) @@ [users |-> tbl, userSeq |-> seq + 1]
  ELSE LET row == [id |-> seq, username |-> username, email |-> email,
                   password |-> password, first_name |-> SqlParam(first),
                   last_name |-> SqlParam(last), avatar_url |-> Null,
                   is_active |-> TRUE, created_at |-> t, updated_at |-> t]
       IN [ok |-> TRUE, user |-> NewUser(row),
           users |-> tbl @@ (seq :> row), userSeq |-> seq + 1]

HashedTwice(password) == BcryptHash(BcryptHash(password))

(* const hashedPassword = await bcrypt.hash(password, salt)                *)
HashedPassword(password) == BcryptHash(password)

UserCreate(tbl, seq, userData, t, c) ==
  IF ~IsString(userData.password)
    THEN Thrown(JsError("Error", "Illegal arguments: undefined, string"))
           @@ [users |-> tbl, userSeq |-> seq]
  ELSE UserInsert(tbl, seq, userData.username, userData.email,
                  HashedPassword(userData.password), userData.firstName,
                  userData.lastName, t, c)

UserFindByIdAny(tbl, id) ==
  IF id \in DOMAIN tbl THEN <<NewUser(tbl[id])>> ELSE <<>>

(* The finders return a sequence: empty for null, else the one User.       *)
UserFindById(tbl, id) ==
  IF id \in DOMAIN tbl /\ tbl[id].is_active THEN <<NewUser(tbl[id])>> ELSE <<>>

UserFindByEmailAny(tbl, email) ==
  LET hit == {i \in DOMAIN tbl : tbl[i].email = email}
  IN IF hit # {} THEN <<NewUser(tbl[CHOOSE i \in hit : TRUE])>> ELSE <<>>

UserFindByEmail(tbl, email) ==
  LET hit == {i \in DOMAIN tbl : tbl[i].email = email /\ tbl[i].is_active}
  IN IF hit # {} THEN <<NewUser(tbl[CHOOSE i \in hit : TRUE])>> ELSE <<>>

UserFindByUsername(tbl, username) ==
  LET hit == {i \in DOMAIN tbl : tbl[i].username = username /\ tbl[i].is_active}
  IN IF hit # {} THEN <<NewUser(tbl[CHOOSE i \in hit : TRUE])>> ELSE <<>>

UserUpdateClearing(tbl, user, updateData, t) ==
  LET row == [col \in UserColumns |->
                IF col \in DOMAIN updateData
                  THEN IF updateData[col] = Undefined THEN Null ELSE updateData[col]
                ELSE IF col = "updated_at" THEN t
                ELSE tbl[user.id][col]]
  IN [ok |-> TRUE, user |-> NewUser(row), users |-> [tbl EXCEPT ![user.id] = row]]

(* user.update(updateData): the keys of updateData are column names; a key *)
(* whose value is undefined is skipped; no key left means no query at all. *)
UserUpdate(tbl, user, updateData, t) ==
  LET keys == {k \in DOMAIN updateData : updateData[k] # Undefined}
  IN IF keys = {} THEN [ok |-> TRUE, user |-> user, users |-> tbl]
     ELSE LET row == [col \in UserColumns |->
                        IF col \in keys THEN updateData[col]
                        ELSE IF col = "updated_at" THEN t
                        ELSE tbl[user.id][col]]
          IN [ok |-> TRUE, user |-> NewUser(row),
              users |-> [tbl EXCEPT ![user.id] = row]]

UserDeleteRow(tbl, user, t) ==
  [ok |-> TRUE, user |-> user, users |-> [i \in (DOMAIN tbl) \ {user.id} |-> tbl[i]]]

(* user.delete(): soft delete.                                             *)
UserDelete(tbl, user, t) ==
  LET row == [tbl[user.id] EXCEPT !.is_active = FALSE, !.updated_at = t]
  IN [ok |-> TRUE, user |-> NewUser(row), users |-> [tbl EXCEPT ![user.id] = row]]

user_comparePassword(user, candidate) == BcryptCompare(candidate, user.password)


(* -------------------------- store: posts table ------------------------- *)
PostColumns ==
  {"id", "title", "content", "author_id", "slug", "status", "featured_image",
   "tags", "created_at", "updated_at"}

PostProp(col) ==
  CASE col = "author_id" -> "authorId" [] col = "featured_image" -> "featuredImage"
    [] col = "created_at" -> "createdAt" [] col = "updated_at" -> "updatedAt"
    [] OTHER -> col

PostCol(prop) == CHOOSE col \in PostColumns : PostProp(col) = prop

NewPost(data) ==
  [p \in {PostProp(c) : c \in (DOMAIN data) \cap PostColumns} |-> data[PostCol(p)]]

(* Post.generateSlug: lower-case, drop every character that is neither a   *)
(* word character nor a space, turn each run of spaces into one hyphen,    *)
(* trim hyphens at both ends.                                              *)
RECURSIVE StripNonWord(_)
StripNonWord(s) ==
  IF s = <<>> THEN <<>>
  ELSE IF WordChar(Head(s)) \/ Head(s) = " " THEN <<Head(s)>> \o StripNonWord(Tail(s))
  ELSE StripNonWord(Tail(s))

RECURSIVE SpacesToHyphen(_)
SpacesToHyphen(s) ==
  IF s = <<>> THEN <<>>
  ELSE IF Head(s) = " "
    THEN IF Len(s) > 1 /\ s[2] = " " THEN SpacesToHyphen(Tail(s))
         ELSE <<"-">> \o SpacesToHyphen(Tail(s))
  ELSE <<Head(s)>> \o SpacesToHyphen(Tail(s))

RECURSIVE TrimHyphens(_)
TrimHyphens(s) ==
  IF s = <<>> THEN <<>>
  ELSE IF Head(s) = "-" THEN TrimHyphens(Tail(s))
  ELSE IF s[Len(s)] = "-" THEN TrimHyphens(SubSeq(s, 1, Len(s) - 1))
  ELSE s

generateSlug(title) ==
  TrimHyphens(SpacesToHyphen(StripNonWord([i \in DOMAIN title |-> ToLower(title[i])])))

PostCreateAnySlug(ptbl, pseq, utbl, postData, t) ==
  LET row == [id |-> pseq, title |-> postData.title, content |-> postData.content,
              author_id |-> postData.authorId, slug |-> postData.slug,
              status |-> postData.status,
              featured_image |-> SqlParam(postData.featuredImage),
              tags |-> SqlParam(postData.tags), created_at |-> t, updated_at |-> t]
  IN [ok |-> TRUE, post |-> NewPost(row),
      posts |-> ptbl @@ (pseq :> row), postSeq |-> pseq + 1]

(* Post.create: INSERT ... RETURNING; status defaults to 'draft' when it   *)
(* is undefined. author_id REFERENCES users(id); slug is UNIQUE.           *)
PostCreate(ptbl, pseq, utbl, postData, t) ==
  IF SqlParam(postData.title) = Null \/ SqlParam(postData.content) = Null
    THEN Thrown(PgError("23502", "")) @@ [posts |-> ptbl, postSeq |-> pseq + 1]
  ELSE IF postData.authorId \notin DOMAIN utbl
    THEN Thrown(PgError("23503", "posts_author_id_fkey"))
           @@ [posts |-> ptbl, postSeq |-> pseq + 1]
  ELSE IF \E i \in DOMAIN ptbl : ptbl[i].slug = postData.slug
    THEN Thrown(PgError("23505", "posts_slug_key"))
           @@ [posts |-> ptbl, postSeq |-> pseq + 1]
  ELSE LET row == [id |-> pseq, title |-> postData.title, content |-> postData.content,
                   author_id |-> postData.authorId, slug |-> postData.slug,
                   status |-> IF postData.status = Undefined THEN <<"draft">>
                              ELSE postData.status,
                   featured_image |-> SqlParam(postData.featuredImage),
                   tags |-> SqlParam(postData.tags),
                   created_at |-> t, updated_at |-> t]
       IN [ok |-> TRUE, post |-> NewPost(row),
           posts |-> ptbl @@ (pseq :> row), postSeq |-> pseq + 1]

(* The author object Post.findById and Post.findAll attach to a post.      *)
AuthorOf(row, urow) ==
  [id |-> row.author_id, username |-> urow.username, firstName |-> urow.first_name,
   lastName |-> urow.last_name, avatarUrl |-> urow.avatar_url]

(* Post.findById: posts JOIN users; empty for null, else the one Post.     *)
PostFindById(ptbl, utbl, id) ==
  IF id \in DOMAIN ptbl /\ ptbl[id].author_id \in DOMAIN utbl
    THEN <<NewPost(ptbl[id]) @@ [author |-> AuthorOf(ptbl[id], utbl[ptbl[id].author_id])]>>
  ELSE <<>>

(* key.replace(/([A-Z])/g, "_$1").toLowerCase() on the characters of key.  *)
RECURSIVE SnakeCase(_)
SnakeCase(key) ==
  IF key = <<>> THEN <<>>
  ELSE IF Head(key) \in UpperChars
    THEN <<"_", ToLower(Head(key))>> \o SnakeCase(Tail(key))
  ELSE <<ToLower(Head(key))>> \o SnakeCase(Tail(key))

KeyChars(key) ==
  CASE key = "title" -> <<"t", "i", "t", "l", "e">>
    [] key = "slug" -> <<"s", "l", "u", "g">>
    [] key = "content" -> <<"c", "o", "n", "t", "e", "n", "t">>
    [] key = "status" -> <<"s", "t", "a", "t", "u", "s">>
    [] key = "featuredImage" ->
         <<"f", "e", "a", "t", "u", "r", "e", "d", "I", "m", "a", "g", "e">>
    [] key = "tags" -> <<"t", "a", "g", "s">>
    [] key = "authorId" -> <<"a", "u", "t", "h", "o", "r", "I", "d">>

(* The column of the posts table a generated name denotes; "" when the     *)
(* table has no such column.                                               *)
PostColumnNamed(chars) ==
  IF \E k \in {"title", "slug", "content", "status", "tags"} : KeyChars(k) = chars
    THEN CHOOSE k \in {"title", "slug", "content", "status", "tags"} : KeyChars(k) = chars
  ELSE IF chars = <<"f", "e", "a", "t", "u", "r", "e", "d", "_", "i", "m", "a", "g", "e">>
    THEN "featured_image"
  ELSE IF chars = <<"a", "u", "t", "h", "o", "r", "_", "i", "d">> THEN "author_id"
  ELSE ""

RECURSIVE DecVal(_)
DecVal(d) ==
  IF d = <<>> THEN 0 ELSE 10 * DecVal(SubSeq(d, 1, Len(d) - 1)) + DigitVal(d[Len(d)])

(* A parameter travels as text; the store reads it as the column's type.   *)
SqlValue(col, v) == IF col = "author_id" THEN DecVal(v) ELSE v

(* post.update(updateData): SET one column per key whose value is not      *)
(* undefined, plus updated_at; no key left means no query at all.          *)
PostUpdate(ptbl, post, updateData, t) ==
  LET keys == {k \in DOMAIN updateData : updateData[k] # Undefined}
      colOf == [k \in keys |-> PostColumnNamed(SnakeCase(KeyChars(k)))]
      row == [col \in PostColumns |->
                IF \E k \in keys : colOf[k] = col
                  THEN SqlValue(col, updateData[CHOOSE k \in keys : colOf[k] = col])
                ELSE IF col = "updated_at" THEN t
                ELSE ptbl[post.id][col]]
  IN IF keys = {} THEN [ok |-> TRUE, post |-> post, posts |-> ptbl]
     ELSE IF \E k \in keys : colOf[k] = ""
       THEN Thrown(PgError("42703", "")) @@ [posts |-> ptbl]
     ELSE IF \E i \in (DOMAIN ptbl) \ {post.id} : ptbl[i].slug = row.slug
       THEN Thrown(PgError("23505", "posts_slug_key")) @@ [posts |-> ptbl]
     ELSE [ok |-> TRUE, post |-> NewPost(row), posts |-> [ptbl EXCEPT ![post.id] = row]]

(* post.update on a Post whose row may be gone: the UPDATE then returns no *)
(* row and new Post(undefined) throws a TypeError.                         *)
PostUpdateRow(ptbl, post, updateData, t) ==
  IF post.id \notin DOMAIN ptbl /\ \E k \in DOMAIN updateData : updateData[k] # Undefined
    THEN Thrown(JsError("TypeError", "Cannot read properties of undefined"))
           @@ [posts |-> ptbl]
  ELSE PostUpdate(ptbl, post, updateData, t)

PostDeleteAll(ptbl, post) == [ok |-> TRUE, posts |-> <<>>]

(* post.delete(): hard delete.                                             *)
PostDelete(ptbl, post) ==
  [ok |-> TRUE, posts |-> [i \in (DOMAIN ptbl) \ {post.id} |-> ptbl[i]]]


(* ------------------------------ responses ------------------------------ *)
(* keys: the top-level keys of the JSON body; users/posts: the user and    *)
(* post objects the body carries, as serialized; token: the issued JWT.    *)
Reply(status, keys, success, message) ==
  [status |-> status, keys |-> keys, success |-> success, message |-> message,
   errors |-> <<>>, users |-> <<>>, posts |-> <<>>, token |-> <<>>, paging |-> <<>>]

Fail(status, message) == Reply(status, {"success", "message"}, FALSE, message)

ValidationFailed(errors) ==
  [Reply(400, {"success", "message", "errors"}, FALSE, "Validation failed")
     EXCEPT !.errors = errors]

(* JSON.stringify calls toJSON on every object that has one: User has,     *)
(* Post has not.                                                           *)
SerializeUser(user) == toJSON(user)

SerializePost(post) == post

(* errorHandler: the boundary every next(error) reaches.                   *)
errorHandler(err) ==
  LET mapped ==
        IF err.code # "" THEN
          CASE err.code = "23505" ->
                 [statusCode |-> 400,
                  message |-> IF err.constraint \in {"users_email_key"}
                              THEN "Email already exists"
                              ELSE "Username already exists"]
            [] err.code = "23503" ->
                 [statusCode |-> 400, message |-> "Referenced record not found"]
            [] err.code = "23502" ->
                 [statusCode |-> 400, message |-> "Required field is missing"]
            [] OTHER -> [statusCode |-> 500, message |-> "Database error"]
        ELSE IF err.name = "JsonWebTokenError"
          THEN [statusCode |-> 401, message |-> "Invalid token"]
        ELSE IF err.name = "TokenExpiredError"
          THEN [statusCode |-> 401, message |-> "Token expired"]
        ELSE [statusCode |-> 500,
              message |-> IF err.message # "" THEN err.message ELSE "Server Error"]
  IN Fail(mapped.statusCode, mapped.message)

(* ---------------------------- authentication --------------------------- *)
(* The Authorization header of a request. kind: "absent" (no header),      *)
(* "empty" ("Bearer " and nothing else), "garbage" (not a JWT), "forged"   *)
(* (a payload under a signature the secret does not verify), "expired" and *)
(* "valid" (a token the server signed, past or within its lifetime).       *)
Header(kind, id, email) == [kind |-> kind, id |-> id, email |-> email]

NoHeader == Header("absent", 0, <<>>)

jwtSign(user) == [id |-> user.id, email |-> user.email]

jwtVerify(hdr) ==
  IF hdr.kind = "valid" THEN [ok |-> TRUE, decoded |-> [id |-> hdr.id, email |-> hdr.email]]
  ELSE Thrown(JsError(IF hdr.kind = "expired" THEN "TokenExpiredError"
                      ELSE "JsonWebTokenError", "jwt"))

authAnyRow(hdr, utbl) ==
  IF hdr.kind \in {"absent", "empty"}
    THEN [ok |-> FALSE, resp |-> Fail(401, "Access denied. No token provided.")]
  ELSE IF ~jwtVerify(hdr).ok \/ jwtVerify(hdr).decoded.id \notin DOMAIN utbl
    THEN [ok |-> FALSE, resp |-> Fail(401, "Token is not valid.")]
  ELSE [ok |-> TRUE, user |-> NewUser(utbl[jwtVerify(hdr).decoded.id])]

(* auth middleware: ok with req.user, or the 401 it answers with.          *)
auth(hdr, utbl) ==
  IF hdr.kind \in {"absent", "empty"}
    THEN [ok |-> FALSE, resp |-> Fail(401, "Access denied. No token provided.")]
  ELSE IF ~jwtVerify(hdr).ok
    THEN [ok |-> FALSE, resp |-> Fail(401, "Token is not valid.")]
  ELSE IF UserFindById(utbl, jwtVerify(hdr).decoded.id) = <<>>
    THEN [ok |-> FALSE, resp |-> Fail(401, "Token is not valid.")]
  ELSE [ok |-> TRUE, user |-> UserFindById(utbl, jwtVerify(hdr).decoded.id)[1]]

(* ------------------------------- requests ------------------------------ *)
Request(op, hdr, id, body) == [op |-> op, hdr |-> hdr, id |-> id, body |-> body]

NoBody == [none |-> TRUE]

(* What a request leaves behind: the store and the response.               *)
Store == [users |-> users, userSeq |-> userSeq, posts |-> posts,
          postSeq |-> postSeq, tokens |-> tokens]

Answer(resp) == Store @@ [response |-> resp]

Outcome(changes, resp) == changes @@ Answer(resp)

(* The server handles one request at a time: a request is taken when none *)
(* is being handled, and handled to its response in one step.              *)
NoRequest == Request("none", NoHeader, 0, NoBody)

NoResponse == Reply(0, {}, FALSE, "")

(* A request whose handler runs step by step, one await after another,     *)
(* beside other requests: phase is where it stands, user what auth set as  *)
(* req.user, loaded what the handler holds from its last query, sent the   *)
(* number of responses it has sent.                                        *)
NoFlight ==
  [op |-> "none", hdr |-> NoHeader, id |-> 0, body |-> NoBody, phase |-> "none",
   user |-> <<>>, loaded |-> <<>>, rows |-> <<>>, count |-> <<>>,
   response |-> NoResponse, sent |-> 0]

Idle == lastReq = NoRequest

Finish(req, out, t) ==
  /\ Idle
  /\ lastReq' = req
  /\ now' = t
  /\ users' = out.users
  /\ userSeq' = out.userSeq
  /\ posts' = out.posts
  /\ postSeq' = out.postSeq
  /\ tokens' = out.tokens
  /\ response' = out.response
  /\ UNCHANGED <<qb, built, flight, mig>>


(* ------------------------------ pagination ----------------------------- *)
DefaultPage == 1
DefaultLimit == 10
MaxLimit == 100

NaN == [nan |-> TRUE, val |-> 0]

RECURSIVE DigitsPrefix(_)
DigitsPrefix(s) ==
  IF s # <<>> /\ Head(s) \in DigitChars THEN <<Head(s)>> \o DigitsPrefix(Tail(s))
  ELSE <<>>

(* parseInt: optional sign, then the longest run of decimal digits; NaN    *)
(* when there is none (undefined included).                                *)
parseInt(s) ==
  IF ~IsString(s) THEN NaN
  ELSE LET signed == s # <<>> /\ Head(s) \in {"-", "+"}
           digits == DigitsPrefix(IF signed THEN Tail(s) ELSE s)
       IN IF digits = <<>> THEN NaN
          ELSE [nan |-> FALSE,
                val |-> IF signed /\ Head(s) = "-" THEN 0 - DecVal(digits)
                        ELSE DecVal(digits)]

NumTruthy(n) == ~n.nan /\ n.val # 0

validatePageOnly(query) ==
  IF NumTruthy(parseInt(query.page))
       /\ (parseInt(query.page).nan \/ parseInt(query.page).val < 1)
    THEN <<Fail(400, "Page must be a positive integer")>>
  ELSE <<>>

validatePagination(query) ==
  LET page == parseInt(query.page)
      limit == parseInt(query.limit)
  IN IF NumTruthy(page) /\ (page.nan \/ page.val < 1)
       THEN <<Fail(400, "Page must be a positive integer")>>
     ELSE IF NumTruthy(limit) /\ (limit.nan \/ limit.val < 1 \/ limit.val > MaxLimit)
       THEN <<Fail(400, "Limit must be between 1 and 100")>>
     ELSE <<>>

(* parseInt(req.query.page) || 1 and parseInt(req.query.limit) || 10       *)
PageOf(query) ==
  IF NumTruthy(parseInt(query.page)) THEN parseInt(query.page).val ELSE DefaultPage

LimitOf(query) ==
  IF NumTruthy(parseInt(query.limit)) THEN parseInt(query.limit).val ELSE DefaultLimit

RoundedDown(a, b) == a \div b

Ceil(a, b) == (a + b - 1) \div b

(* The orders in which ORDER BY created_at DESC may return the rows ids:   *)
(* rows created at the same instant come in any order.                     *)
NewestFirst(tbl, ids) ==
  {o \in [1..Cardinality(ids) -> ids] :
     /\ \A i, j \in DOMAIN o : i # j => o[i] # o[j]
     /\ \A i, j \in DOMAIN o : i < j => tbl[o[i]].created_at >= tbl[o[j]].created_at}

(* LIMIT limit OFFSET offset                                               *)
LimitOffset(rows, limit, offset) ==
  SubSeq(rows, offset + 1, IF offset + limit < Len(rows) THEN offset + limit ELSE Len(rows))

UserListColumns ==
  {"id", "username", "email", "first_name", "last_name", "avatar_url", "created_at"}

(* User.findAll(page, limit); order is the row order the store returns.    *)
UserFindAll(tbl, page, limit, order) ==
  LET offset == (page - 1) * limit
      rows == LimitOffset(order, limit, offset)
      count == Cardinality({i \in DOMAIN tbl : tbl[i].is_active})
  IN [users |-> [k \in DOMAIN rows |->
                   NewUser([c \in UserListColumns |-> tbl[rows[k]][c]])],
      totalCount |-> count, currentPage |-> page, totalPages |-> Ceil(count, limit)]

(* Post.findByAuthor(authorId, page, limit); order as for User.findAll.    *)
PostFindByAuthor(ptbl, authorId, page, limit, order) ==
  LET offset == (page - 1) * limit
      rows == LimitOffset(order, limit, offset)
      count == Cardinality({i \in DOMAIN ptbl : ptbl[i].author_id = authorId})
  IN [posts |-> [k \in DOMAIN rows |-> NewPost(ptbl[rows[k]])],
      totalCount |-> count, currentPage |-> page, totalPages |-> Ceil(count, limit)]

(* ------------------------------ Post.findAll --------------------------- *)
(* value ILIKE pattern: % stands for any run of characters, _ for any one  *)
(* character, \ makes the next character literal, letters match without    *)
(* regard to case.                                                         *)
RECURSIVE ILike(_, _)
ILike(s, pat) ==
  IF pat = <<>> THEN s = <<>>
  ELSE IF Head(pat) = "%"
    THEN ILike(s, Tail(pat)) \/ (s # <<>> /\ ILike(Tail(s), pat))
  ELSE IF Head(pat) = "_" THEN s # <<>> /\ ILike(Tail(s), Tail(pat))
  ELSE IF Head(pat) = "\\" /\ Len(pat) > 1
    THEN /\ s # <<>>
         /\ ToLower(Head(s)) = ToLower(pat[2])
         /\ ILike(Tail(s), SubSeq(pat, 3, Len(pat)))
  ELSE /\ s # <<>>
       /\ ToLower(Head(s)) = ToLower(Head(pat))
       /\ ILike(Tail(s), Tail(pat))

(* `%${value}%`                                                            *)
Wrapped(value) == <<"%">> \o value \o <<"%">>

(* The WHERE clause under construction: the conditions, each with the      *)
(* placeholder numbers its text carries and the value pushed for it, the   *)
(* parameter list, and the counter.                                        *)
NoConditions == [whereConditions |-> <<>>, queryParams |-> <<>>, paramCount |-> 1]

(* whereConditions.push(text naming $paramCount, uses times);              *)
(* queryParams.push(value); paramCount++                                   *)
PushCondition(b, cond, uses, value) ==
  [whereConditions |->
     Append(b.whereConditions,
            [cond |-> cond, placeholders |-> [k \in 1..uses |-> b.paramCount],
             value |-> value]),
   queryParams |-> Append(b.queryParams, value),
   paramCount |-> b.paramCount + 1]

FindAllWhere(filters) ==
  LET b1 == IF Truthy(filters.status)
              THEN PushCondition(NoConditions, "p.status =", 1, filters.status)
            ELSE NoConditions
      b2 == IF Truthy(filters.author)
              THEN PushCondition(b1, "u.username ILIKE", 1, Wrapped(filters.author))
            ELSE b1
      b3 == IF Truthy(filters.search)
              THEN PushCondition(b2, "p.title ILIKE OR p.content ILIKE", 2,
                                 Wrapped(filters.search))
            ELSE b2
  IN IF filters.tags # Undefined /\ Len(filters.tags) > 0
       THEN PushCondition(b3, "p.tags &&", 1, filters.tags)
     ELSE b3

(* queryParams.slice(0, -2)                                                *)
SliceOffLastTwo(params) == SubSeq(params, 1, Len(params) - 2)

(* The row query and the count query of Post.findAll with their parameter  *)
(* lists: LIMIT $paramCount OFFSET $paramCount+1, values pushed last.      *)
FindAllQuery(filters, page, limit) ==
  LET w == FindAllWhere(filters)
      all == w.queryParams \o <<limit, (page - 1) * limit>>
  IN [whereConditions |-> w.whereConditions,
      limitAt |-> w.paramCount, offsetAt |-> w.paramCount + 1,
      queryParams |-> all, countParams |-> SliceOffLastTwo(all)]

(* One condition of the WHERE clause on a row of posts JOIN users, each    *)
(* placeholder standing for the parameter of its number.                   *)
Holds(c, params, row, urow) ==
  CASE c.cond = "p.status =" -> row.status = params[c.placeholders[1]]
    [] c.cond = "u.username ILIKE" -> ILike(urow.username, params[c.placeholders[1]])
    [] c.cond = "p.title ILIKE OR p.content ILIKE" ->
         \/ ILike(row.title, params[c.placeholders[1]])
         \/ ILike(row.content, params[c.placeholders[2]])
    [] c.cond = "p.tags &&" ->
         /\ row.tags # Null
         /\ \E i \in DOMAIN row.tags, j \in DOMAIN params[c.placeholders[1]] :
              row.tags[i] = params[c.placeholders[1]][j]

(* The ids of the rows of posts JOIN users the WHERE clause selects.       *)
Selected(ptbl, utbl, conds, params) ==
  {i \in DOMAIN ptbl :
     /\ ptbl[i].author_id \in DOMAIN utbl
     /\ \A k \in DOMAIN conds :
          Holds(conds[k], params, ptbl[i], utbl[ptbl[i].author_id])}

(* Post.findAll(filters, page, limit); order is the order in which the     *)
(* store returns the selected rows.                                        *)
PostFindAll(ptbl, utbl, filters, page, limit, order) ==
  LET q == FindAllQuery(filters, page, limit)
      rows == LimitOffset(order, q.queryParams[q.limitAt], q.queryParams[q.offsetAt])
      count == Cardinality(Selected(ptbl, utbl, q.whereConditions, q.countParams))
  IN [posts |-> [k \in DOMAIN rows |->
                   NewPost(ptbl[rows[k]])
                     @@ [author |-> AuthorOf(ptbl[rows[k]], utbl[ptbl[rows[k]].author_id])]],
      totalCount |-> count, currentPage |-> page, totalPages |-> Ceil(count, limit)]


(* ------------------- utils/queryBuilder.js: QueryBuilder --------------- *)
(* An array is told from a string by its first element, which no string    *)
(* has: strings are sequences of single characters.                        *)
ArrayOf(items) == <<"[]">> \o items

IsArray(v) == Len(v) > 0 /\ v[1] = "[]"

ItemsOf(v) == Tail(v)

(* constructor()                                                           *)
NewQueryBuilder == [conditions |-> <<>>, params |-> <<>>, paramCount |-> 1]

(* One entry of conditions: the fields and the operator its text names and *)
(* the numbers its text carries where the placeholders go, in order; group *)
(* tells a text in parentheses.                                            *)
Condition(fields, operator, placeholders, group) ==
  [fields |-> fields, operator |-> operator, placeholders |-> placeholders,
   group |-> group]

(* addCondition(field, operator, value): the switch, then paramCount++.    *)
addCondition(b, field, operator, value) ==
  IF value = Undefined \/ value = Null \/ value = <<>> THEN b
  ELSE LET p == b.paramCount
           one == [b EXCEPT !.conditions =
                              Append(@, Condition(<<field>>, operator, <<p>>, FALSE))]
           switched ==
             CASE operator \in {"LIKE", "ILIKE"} ->
                    [one EXCEPT !.params = Append(@, Wrapped(value))]
               [] operator = "IN" ->
                    IF IsArray(value) /\ Len(ItemsOf(value)) > 0
                      THEN [conditions |->
                              Append(b.conditions,
                                     Condition(<<field>>, "IN",
                                               [i \in 1..Len(ItemsOf(value)) |-> p + i - 1],
                                               FALSE)),
                            params |-> b.params \o ItemsOf(value),
                            paramCount |-> p + Len(ItemsOf(value)) - 1]
                    ELSE b
               [] operator = "BETWEEN" ->
                    IF IsArray(value) /\ Len(ItemsOf(value)) = 2
                      THEN [conditions |->
                              Append(b.conditions,
                                     Condition(<<field>>, "BETWEEN", <<p, p + 1>>, FALSE)),
                            params |-> b.params \o ItemsOf(value),
                            paramCount |-> p + 1]
                    ELSE b
               [] OTHER -> [one EXCEPT !.params = Append(@, value)]
       IN [switched EXCEPT !.paramCount = @ + 1]

(* addTextSearch(fields, searchTerm): every field's ILIKE carries the same *)
(* number; one parameter is pushed per field; paramCount++ once.           *)
addTextSearch(b, fields, searchTerm) ==
  IF Truthy(searchTerm) /\ Len(fields) > 0
    THEN [conditions |->
            Append(b.conditions,
                   Condition(fields, "ILIKE", [i \in DOMAIN fields |-> b.paramCount],
                             TRUE)),
          params |-> b.params \o [i \in DOMAIN fields |-> Wrapped(searchTerm)],
          paramCount |-> b.paramCount + 1]
  ELSE b

addDateRange(b, field, startDate, endDate) ==
  LET b1 == IF Truthy(startDate) THEN addCondition(b, field, ">=", startDate) ELSE b
  IN IF Truthy(endDate) THEN addCondition(b1, field, "<=", endDate) ELSE b1

(* build(): the conditions joined by AND after WHERE, or the empty string, *)
(* and the parameter list.                                                 *)
build(b) == [whereClause |-> b.conditions, params |-> b.params, none |-> FALSE]

NothingBuilt == [whereClause |-> <<>>, params |-> <<>>, none |-> TRUE]


(* ---------------------------- AuthController --------------------------- *)
Created(r) == [users |-> r.users, userSeq |-> r.userSeq]

register(body, t, c) ==
  IF UserFindByEmail(users, body.email) # <<>>
    THEN Answer(Fail(400, "User with this email already exists"))
  ELSE IF UserFindByUsername(users, body.username) # <<>>
    THEN Answer(Fail(400, "Username already taken"))
  ELSE LET r == UserCreate(users, userSeq, body, t, c)
       IN IF ~r.ok THEN Outcome(Created(r), errorHandler(r.err))
          ELSE Outcome(Created(r) @@ [tokens |-> tokens \cup {jwtSign(r.user)}],
                       [Reply(201, {"success", "message", "data"}, TRUE,
                              "User registered successfully")
                          EXCEPT !.users = <<toJSON(r.user)>>,
                                 !.token = <<jwtSign(r.user)>>])

login(body) ==
  LET found == UserFindByEmail(users, body.email)
  IN IF found = <<>> THEN Answer(Fail(401, "Invalid email or password"))
     ELSE IF ~user_comparePassword(found[1], body.password)
       THEN Answer(Fail(401, "Invalid email or password"))
     ELSE Outcome([tokens |-> tokens \cup {jwtSign(found[1])}],
                  [Reply(200, {"success", "message", "data"}, TRUE, "Login successful")
                     EXCEPT !.users = <<toJSON(found[1])>>,
                            !.token = <<jwtSign(found[1])>>])

getProfile(reqUser) ==
  LET found == UserFindById(users, reqUser.id)
  IN IF found = <<>> THEN Answer(Fail(404, "User not found"))
     ELSE Answer([Reply(200, {"success", "data"}, TRUE, "")
                    EXCEPT !.users = <<toJSON(found[1])>>])

updateProfile(reqUser, body, t) ==
  LET found == UserFindById(users, reqUser.id)
  IN IF found = <<>> THEN Answer(Fail(404, "User not found"))
     ELSE LET r == UserUpdate(users, found[1],
                              [first_name |-> body.firstName,
                               last_name |-> body.lastName,
                               avatar_url |-> body.avatarUrl], t)
          IN Outcome([users |-> r.users],
                     [Reply(200, {"success", "message", "data"}, TRUE,
                            "Profile updated successfully")
                        EXCEPT !.users = <<toJSON(r.user)>>])

(* ------------------- v1 controllers/userController.js ------------------ *)
(* registerUser hashes the password and calls User.create(name, email,     *)
(* hash): create destructures its first argument, the name, so every field *)
(* it reads is undefined (and reading them off an undefined name throws).  *)
registerUser(body, t, c) ==
  IF ~IsString(body.password)
    THEN Answer(Reply(400, {"error"}, FALSE, "data and salt arguments required"))
  ELSE IF ~IsString(body.name)
    THEN Answer(Reply(400, {"error"}, FALSE, "Cannot destructure property of undefined"))
  ELSE LET userData == [username |-> Undefined, email |-> Undefined,
                        password |-> Undefined, firstName |-> Undefined,
                        lastName |-> Undefined]
           r == UserCreate(users, userSeq, userData, t, c)
       IN IF ~r.ok THEN Outcome(Created(r), Reply(400, {"error"}, FALSE, r.err.message))
          ELSE Outcome(Created(r),
                       [Reply(201, {"user"}, FALSE, "")
                          EXCEPT !.users = <<SerializeUser(r.user)>>])

loginUser(body) ==
  LET found == UserFindByEmail(users, body.email)
  IN IF found = <<>> THEN Answer(Reply(404, {"error"}, FALSE, "User not found"))
     ELSE IF ~IsString(body.password)
       THEN Answer(Reply(400, {"error"}, FALSE, "data and hash arguments required"))
     ELSE IF ~BcryptCompare(body.password, found[1].password)
       THEN Answer(Reply(401, {"error"}, FALSE, "Invalid credentials"))
     ELSE Outcome([tokens |-> tokens \cup {jwtSign(found[1])}],
                  [Reply(200, {"token"}, FALSE, "") EXCEPT !.token = <<jwtSign(found[1])>>])

(* ---------------------------- UserController --------------------------- *)
Paging(result) ==
  [totalCount |-> result.totalCount, currentPage |-> result.currentPage,
   totalPages |-> result.totalPages]

getUserPosts(id, query, order) ==
  LET found == UserFindById(users, id)
  IN IF found = <<>> THEN Answer(Fail(404, "User not found"))
     ELSE LET result == PostFindByAuthor(posts, found[1].id, PageOf(query),
                                         LimitOf(query), order)
          IN Answer([Reply(200, {"success", "data"}, TRUE, "")
                       EXCEPT !.posts = [k \in DOMAIN result.posts |->
                                           SerializePost(result.posts[k])],
                              !.paging = <<Paging(result)>>])

getAllUsers(query, order) ==
  LET result == UserFindAll(users, PageOf(query), LimitOf(query), order)
  IN Answer([Reply(200, {"success", "data"}, TRUE, "")
               EXCEPT !.users = [k \in DOMAIN result.users |->
                                   SerializeUser(result.users[k])],
                      !.paging = <<Paging(result)>>])

getUserById(id) ==
  LET found == UserFindById(users, id)
  IN IF found = <<>> THEN Answer(Fail(404, "User not found"))
     ELSE Answer([Reply(200, {"success", "data"}, TRUE, "")
                    EXCEPT !.users = <<toJSON(found[1])>>])

NeverSelf(reqUser, id) == FALSE

(* req.user.id === parseInt(id)                                            *)
IsSelf(reqUser, id) == reqUser.id = id

deleteUser(reqUser, id, t) ==
  IF IsSelf(reqUser, id) THEN Answer(Fail(400, "You cannot delete your own account"))
  ELSE LET found == UserFindById(users, id)
       IN IF found = <<>> THEN Answer(Fail(404, "User not found"))
          ELSE Outcome([users |-> UserDelete(users, found[1], t).users],
                       Reply(200, {"success", "message"}, TRUE, "User deleted successfully"))


(* ---------------------------- PostController --------------------------- *)
(* Post.generateSlug(title) + "-" + Date.now()                             *)
SlugAt(title, t) == generateSlug(title) \o <<"-">> \o NumStr(t)

AuthorFromBody(reqUser, body) ==
  IF body.authorId # Undefined THEN DecVal(body.authorId) ELSE reqUser.id

(* const authorId = req.user.id                                            *)
PostAuthor(reqUser, body) == reqUser.id

createPost(reqUser, body, t) ==
  LET r == PostCreate(posts, postSeq, users,
                      [title |-> body.title, content |-> body.content,
                       authorId |-> PostAuthor(reqUser, body), slug |-> SlugAt(body.title, t),
                       status |-> IF Truthy(body.status) THEN body.status
                                  ELSE <<"draft">>,
                       featuredImage |-> body.featuredImage, tags |-> body.tags], t)
      written == [posts |-> r.posts, postSeq |-> r.postSeq]
  IN IF ~r.ok THEN Outcome(written, errorHandler(r.err))
     ELSE Outcome(written,
                  [Reply(201, {"success", "message", "data"}, TRUE,
                         "Post created successfully")
                     EXCEPT !.posts = <<SerializePost(r.post)>>])

getPostById(id) ==
  LET found == PostFindById(posts, users, id)
  IN IF found = <<>> THEN Answer(Fail(404, "Post not found"))
     ELSE Answer([Reply(200, {"success", "data"}, TRUE, "")
                    EXCEPT !.posts = <<SerializePost(found[1])>>])

(* String.prototype.split(",")                                             *)
RECURSIVE SplitComma(_)
SplitComma(s) ==
  IF \A i \in DOMAIN s : s[i] # "," THEN <<s>>
  ELSE LET i == CHOOSE k \in DOMAIN s : s[k] = "," /\ \A j \in 1..(k - 1) : s[j] # ","
       IN <<SubSeq(s, 1, i - 1)>> \o SplitComma(SubSeq(s, i + 1, Len(s)))

(* The filters object getAllPosts builds from the query string.            *)
FiltersOf(query) ==
  [status |-> query.status, author |-> query.author, search |-> query.search,
   tags |-> IF Truthy(query.tags) THEN SplitComma(query.tags) ELSE Undefined]

getAllPosts(query, order) ==
  LET result == PostFindAll(posts, users, FiltersOf(query), PageOf(query),
                            LimitOf(query), order)
  IN Answer([Reply(200, {"success", "data"}, TRUE, "")
               EXCEPT !.posts = [k \in DOMAIN result.posts |->
                                   SerializePost(result.posts[k])],
                      !.paging = <<Paging(result)>>])

UpdateFields(body, t) ==
  [title |-> IF Truthy(body.title) THEN body.title ELSE Undefined,
   slug |-> IF Truthy(body.title) THEN SlugAt(body.title, t) ELSE Undefined,
   content |-> IF Truthy(body.content) THEN body.content ELSE Undefined,
   status |-> IF Truthy(body.status) THEN body.status ELSE Undefined,
   featuredImage |-> IF Truthy(body.featuredImage) THEN body.featuredImage
                     ELSE Undefined,
   tags |-> IF body.tags # Undefined /\ body.tags # Null THEN body.tags ELSE Undefined]

UpdateDataWithAuthor(body, t) == UpdateFields(body, t) @@ [authorId |-> body.authorId]

(* The updateData object updatePost builds from the request body.          *)
UpdateDataOf(body, t) == UpdateFields(body, t)

OwnsAny(post, reqUser) == TRUE

(* post.authorId !== req.user.id, negated                                  *)
Owns(post, reqUser) == post.authorId = reqUser.id

updatePost(reqUser, id, body, t) ==
  LET found == PostFindById(posts, users, id)
  IN IF found = <<>> THEN Answer(Fail(404, "Post not found"))
     ELSE IF ~Owns(found[1], reqUser)
       THEN Answer(Fail(403, "You can only update your own posts"))
     ELSE LET r == PostUpdate(posts, found[1], UpdateDataOf(body, t), t)
          IN IF ~r.ok THEN Outcome([posts |-> r.posts], errorHandler(r.err))
             ELSE Outcome([posts |-> r.posts],
                          [Reply(200, {"success", "message", "data"}, TRUE,
                                 "Post updated successfully")
                             EXCEPT !.posts = <<SerializePost(r.post)>>])

deletePost(reqUser, id) ==
  LET found == PostFindById(posts, users, id)
  IN IF found = <<>> THEN Answer(Fail(404, "Post not found"))
     ELSE IF ~Owns(found[1], reqUser)
       THEN Answer(Fail(403, "You can only delete your own posts"))
     ELSE Outcome([posts |-> PostDelete(posts, found[1]).posts],
                  Reply(200, {"success", "message"}, TRUE, "Post deleted successfully"))


(* ---------------------- utils/migrate.js: Migration -------------------- *)
(* The UTF-16 code unit of a character of a file name.                     *)
CodeUnit(ch) ==
  CASE ch = "." -> 46 [] ch = "0" -> 48 [] ch = "1" -> 49 [] ch = "2" -> 50
    [] ch = "l" -> 108 [] ch = "q" -> 113 [] ch = "s" -> 115 [] ch = "t" -> 116
    [] ch = "x" -> 120

(* a sorts before b under Array.prototype.sort with no comparator.         *)
RECURSIVE Before(_, _)
Before(a, b) ==
  IF a = <<>> THEN b # <<>>
  ELSE IF b = <<>> THEN FALSE
  ELSE IF Head(a) = Head(b) THEN Before(Tail(a), Tail(b))
  ELSE CodeUnit(Head(a)) < CodeUnit(Head(b))

(* migrationFiles.sort()                                                   *)
SortedFiles(dir) ==
  CHOOSE o \in [1..Cardinality(dir) -> dir] :
    \A i, j \in 1..Cardinality(dir) : i < j => Before(o[i], o[j])

(* file.endsWith('.sql')                                                   *)
EndsWithSql(file) ==
  Len(file) >= 4 /\ SubSeq(file, Len(file) - 3, Len(file)) = <<".", "s", "q", "l">>

FileNames ==
  {<<"1", ".", "s", "q", "l">>, <<"1", "0", ".", "s", "q", "l">>,
   <<"2", ".", "s", "q", "l">>, <<"2", ".", "t", "x", "t">>}

NoTxn == [open |-> FALSE, sql |-> FALSE, row |-> FALSE]

(* No run yet: an empty migrations table and no migration applied. table   *)
(* and effects are what is committed in the database, txn what the open    *)
(* transaction of the client holds, clients the clients checked out of the *)
(* pool.                                                                   *)
NoRun ==
  [pc |-> "idle", runs |-> 0, dir |-> {}, files |-> <<>>, known |-> {}, idx |-> 0,
   table |-> {}, effects |-> [n \in FileNames |-> 0], txn |-> NoTxn, clients |-> 0,
   threw |-> FALSE]

(* INSERT INTO migrations (name) VALUES ($1): name is UNIQUE.              *)
InsertFailsOnFault(table, name, fault) == fault

InsertFails(table, name, fault) == fault \/ name \in table

(* COMMIT: what the transaction did becomes what the database holds.       *)
Committed(m, name) ==
  [m EXCEPT !.table = IF m.txn.row THEN @ \cup {name} ELSE @,
            !.effects[name] = IF m.txn.sql THEN @ + 1 ELSE @,
            !.txn = NoTxn]

(* ------------------------------- routes -------------------------------- *)
(* One action per route: the middleware chain, then the controller.        *)
Init ==
  /\ users = <<>>
  /\ userSeq = 1
  /\ posts = <<>>
  /\ postSeq = 1
  /\ tokens = {}
  /\ now = 0
  /\ lastReq = NoRequest
  /\ response = NoResponse
  /\ qb = NewQueryBuilder
  /\ built = NothingBuilt
  /\ flight = [s \in 1..MaxFlight |-> NoFlight]
  /\ mig = NoRun

(* The clock of Date.now() and CURRENT_TIMESTAMP moves between requests.   *)
Tick ==
  /\ Idle
  /\ now < MaxClock
  /\ now' = now + 1
  /\ UNCHANGED <<users, userSeq, posts, postSeq, tokens, lastReq, response, qb, built,
                 flight, mig>>

(* The response has been sent; the server waits for the next request.      *)
Respond ==
  /\ ~Idle
  /\ lastReq' = NoRequest
  /\ response' = NoResponse
  /\ UNCHANGED <<users, userSeq, posts, postSeq, tokens, now, qb, built, flight, mig>>

(* router.post('/register', validateRegistration, AuthController.register) *)
Register(body) ==
  /\ userSeq <= MaxUserSeq
  /\ \E c \in IF UserUniqueViolations(users, body.username, body.email) = {} THEN {""}
              ELSE UserUniqueViolations(users, body.username, body.email) :
       Finish(Request("register", NoHeader, 0, body),
              IF validateRegistration(body) # <<>>
                THEN Answer(ValidationFailed(validateRegistration(body)))
              ELSE register(body, now, c), now)

(* router.post('/login', validateLogin, AuthController.login)              *)
Login(body) ==
  Finish(Request("login", NoHeader, 0, body),
         IF validateLogin(body) # <<>> THEN Answer(ValidationFailed(validateLogin(body)))
         ELSE login(body), now)

(* The handlers v1 userController.js exports; they run no middleware.      *)
RegisterUser(body) ==
  /\ userSeq <= MaxUserSeq
  /\ Finish(Request("registerUser", NoHeader, 0, body), registerUser(body, now, ""), now)

LoginUser(body) ==
  Finish(Request("loginUser", NoHeader, 0, body), loginUser(body), now)

(* req.user, as auth sets it when it lets the request through.             *)
ReqUser(hdr) == auth(hdr, users).user

(* A route behind auth: the 401 of the middleware, or what the rest of the *)
(* chain, given as its outcome with req.user set, does.                    *)
Protected(req, rest) ==
  Finish(req,
         IF ~auth(req.hdr, users).ok THEN Answer(auth(req.hdr, users).resp)
         ELSE rest, now)

GetProfile(hdr) ==
  Protected(Request("getProfile", hdr, 0, NoBody), getProfile(ReqUser(hdr)))

UpdateProfile(hdr, body) ==
  Protected(Request("updateProfile", hdr, 0, body),
            updateProfile(ReqUser(hdr), body, now))

GetAllUsers(hdr, query) ==
  \E order \in NewestFirst(users, {i \in DOMAIN users : users[i].is_active}) :
    Protected(Request("getAllUsers", hdr, 0, query),
              IF validatePagination(query) # <<>>
                THEN Answer(validatePagination(query)[1])
              ELSE getAllUsers(query, order))

GetUserById(hdr, id) ==
  Protected(Request("getUserById", hdr, id, NoBody), getUserById(id))

GetUserPosts(hdr, id, query) ==
  \E order \in NewestFirst(posts, {i \in DOMAIN posts : posts[i].author_id = id}) :
    Protected(Request("getUserPosts", hdr, id, query),
              IF validatePagination(query) # <<>>
                THEN Answer(validatePagination(query)[1])
              ELSE getUserPosts(id, query, order))

DeleteUser(hdr, id) ==
  Protected(Request("deleteUser", hdr, id, NoBody), deleteUser(ReqUser(hdr), id, now))

CreatePost(hdr, body) ==
  /\ postSeq <= MaxPostSeq
  /\ Protected(Request("createPost", hdr, 0, body),
               IF validatePost(body) # <<>>
                 THEN Answer(ValidationFailed(validatePost(body)))
               ELSE createPost(ReqUser(hdr), body, now))

(* postRouter.get("/", optionalAuth, validatePagination, getAllPosts):     *)
(* optionalAuth never rejects.                                             *)
GetAllPosts(hdr, query) ==
  \E order \in NewestFirst(posts,
                           Selected(posts, users,
                                    FindAllWhere(FiltersOf(query)).whereConditions,
                                    FindAllWhere(FiltersOf(query)).queryParams)) :
    Finish(Request("getAllPosts", hdr, 0, query),
           IF validatePagination(query) # <<>>
             THEN Answer(validatePagination(query)[1])
           ELSE getAllPosts(query, order), now)

(* optionalAuth never rejects, and getPostById does not read req.user.     *)
GetPostById(hdr, id) ==
  Finish(Request("getPostById", hdr, id, NoBody), getPostById(id), now)

UpdatePost(hdr, id, body) ==
  Protected(Request("updatePost", hdr, id, body),
            IF validatePost(body) # <<>>
              THEN Answer(ValidationFailed(validatePost(body)))
            ELSE updatePost(ReqUser(hdr), id, body, now))

DeletePost(hdr, id) ==
  Protected(Request("deletePost", hdr, id, NoBody), deletePost(ReqUser(hdr), id))

(* --------------------------- repository calls -------------------------- *)
(* update called on the object a finder returned, with any updateData; the *)
(* response is what the call returned or that it threw.                    *)
ReturnedUser(user) == [Reply(0, {"returned"}, TRUE, "") EXCEPT !.users = <<user>>]

ReturnedPost(post) == [Reply(0, {"returned"}, TRUE, "") EXCEPT !.posts = <<post>>]

Threw == Reply(0, {"thrown"}, FALSE, "")

User_update(id, updateData) ==
  /\ UserFindById(users, id) # <<>>
  /\ LET r == UserUpdate(users, UserFindById(users, id)[1], updateData, now)
     IN Finish(Request("User.update", NoHeader, id, updateData),
               Outcome([users |-> r.users], ReturnedUser(r.user)), now)

Post_update(id, updateData) ==
  /\ PostFindById(posts, users, id) # <<>>
  /\ LET r == PostUpdate(posts, PostFindById(posts, users, id)[1], updateData, now)
     IN Finish(Request("Post.update", NoHeader, id, updateData),
               Outcome([posts |-> r.posts],
                       IF r.ok THEN ReturnedPost(r.post) ELSE Threw), now)

(* ------------------------- calls on a QueryBuilder --------------------- *)
(* A call is made while the counter is within its bound.                   *)
Building ==
  /\ Idle
  /\ qb.paramCount <= MaxParamCount
  /\ UNCHANGED <<users, userSeq, posts, postSeq, tokens, now, lastReq, response, built,
                 flight, mig>>

(* new QueryBuilder(): built is what the builder at hand last returned.    *)
QbNew ==
  /\ Idle
  /\ qb # NewQueryBuilder
  /\ qb' = NewQueryBuilder
  /\ built' = NothingBuilt
  /\ UNCHANGED <<users, userSeq, posts, postSeq, tokens, now, lastReq, response, flight, mig>>

QbAddCondition(field, operator, value) ==
  /\ Building
  /\ qb' = addCondition(qb, field, operator, value)

QbAddTextSearch(fields, searchTerm) ==
  /\ Building
  /\ qb' = addTextSearch(qb, fields, searchTerm)

QbAddDateRange(field, startDate, endDate) ==
  /\ Building
  /\ qb' = addDateRange(qb, field, startDate, endDate)

QbBuild ==
  /\ Idle
  /\ built' = build(qb)
  /\ UNCHANGED <<users, userSeq, posts, postSeq, tokens, now, lastReq, response, qb,
                 flight, mig>>

(* ---------------------- handlers, one await at a time ------------------ *)
StoreKept ==
  UNCHANGED <<users, userSeq, posts, postSeq, tokens, now, lastReq, response, qb, built,
              mig>>

TablesKept ==
  UNCHANGED <<users, userSeq, postSeq, tokens, now, lastReq, response, qb, built,
              mig>>

(* The request in slot s moves on to a phase, holding some new values.     *)
Advance(s, phase, held) ==
  flight' = [flight EXCEPT ![s] = ([phase |-> phase] @@ held) @@ @]

SendAndGoOn(s, phase, resp) ==
  flight' = [flight EXCEPT ![s] = [response |-> resp, sent |-> @.sent + 1] @@ @]

(* res.status(...).json(...): the request in slot s ends in a phase.       *)
Send(s, phase, resp) ==
  flight' = [flight EXCEPT ![s] =
               [phase |-> phase, response |-> resp, sent |-> @.sent + 1] @@ @]

FlReceive(s, op, hdr, id, body) ==
  /\ Idle
  /\ flight[s] = NoFlight
  /\ flight' = [flight EXCEPT ![s] =
                  [op |-> op, hdr |-> hdr, id |-> id, body |-> body,
                   phase |-> "Received"] @@ NoFlight]
  /\ StoreKept

(* auth: jwt.verify, then User.findById.                                   *)
FlAuth(s) ==
  /\ flight[s].phase = "Received"
  /\ flight[s].op \in {"updatePost", "deletePost"}
  /\ \E a \in {auth(flight[s].hdr, users)} :
       IF a.ok THEN Advance(s, "Authenticated", [user |-> <<a.user>>])
       ELSE Send(s, "Errored", a.resp)
  /\ StoreKept

FlValidatePost(s) ==
  /\ flight[s].phase = "Authenticated"
  /\ flight[s].op = "updatePost"
  /\ \E errors \in {validatePost(flight[s].body)} :
       IF errors # <<>> THEN Send(s, "Errored", ValidationFailed(errors))
       ELSE Advance(s, "Validated", [user |-> flight[s].user])
  /\ StoreKept

(* updatePost and deletePost up to their write: Post.findById, then the    *)
(* owner check.                                                            *)
FlLoadPost(s) ==
  /\ \/ flight[s].op = "updatePost" /\ flight[s].phase = "Validated"
     \/ flight[s].op = "deletePost" /\ flight[s].phase = "Authenticated"
  /\ \E found \in {PostFindById(posts, users, flight[s].id)} :
       IF found = <<>> THEN Send(s, "Errored", Fail(404, "Post not found"))
       ELSE IF ~Owns(found[1], flight[s].user[1])
         THEN Send(s, "Errored",
                   Fail(403, IF flight[s].op = "updatePost"
                               THEN "You can only update your own posts"
                             ELSE "You can only delete your own posts"))
       ELSE Advance(s, "Authorized", [loaded |-> found])
  /\ StoreKept

(* post.update(updateData) or post.delete(); what update throws goes to    *)
(* next(error) and the error handler.                                      *)
FlWritePost(s) ==
  /\ flight[s].phase = "Authorized"
  /\ \/ /\ flight[s].op = "updatePost"
        /\ \E updateData \in {UpdateDataOf(flight[s].body, now)} :
           \E r \in {PostUpdateRow(posts, flight[s].loaded[1], updateData, now)} :
             /\ posts' = r.posts
             /\ IF r.ok THEN Advance(s, "Executed", [loaded |-> <<r.post>>])
                ELSE Send(s, "Errored", errorHandler(r.err))
     \/ /\ flight[s].op = "deletePost"
        /\ \E r \in {PostDelete(posts, flight[s].loaded[1])} :
             /\ posts' = r.posts
             /\ Advance(s, "Executed", [loaded |-> <<>>])
  /\ TablesKept

FlRespond(s) ==
  /\ flight[s].phase = "Executed"
  /\ \/ /\ flight[s].op = "updatePost"
        /\ Send(s, "Responded",
                [Reply(200, {"success", "message", "data"}, TRUE,
                       "Post updated successfully")
                   EXCEPT !.posts = <<SerializePost(flight[s].loaded[1])>>])
     \/ /\ flight[s].op = "deletePost"
        /\ Send(s, "Responded",
                Reply(200, {"success", "message"}, TRUE, "Post deleted successfully"))
  /\ StoreKept

(* getAllPosts, validatePagination passed: Post.findAll hands both of its  *)
(* queries to the pool before it awaits either. Each is a statement of its *)
(* own and reads the rows committed when it runs.                          *)
FlValidatePagination(s) ==
  /\ flight[s].phase = "Received"
  /\ flight[s].op = "getAllPosts"
  /\ \E errors \in {validatePagination(flight[s].body)} :
       IF errors # <<>> THEN Send(s, "Errored", errors[1])
       ELSE Advance(s, "Validated", [rows |-> <<>>, count |-> <<>>])
  /\ StoreKept

FindAllNow(query, order) ==
  PostFindAll(posts, users, FiltersOf(query), PageOf(query), LimitOf(query), order)

(* db.query(query, queryParams) resolves.                                  *)
FlRowQuery(s) ==
  /\ flight[s].phase = "Validated"
  /\ flight[s].op = "getAllPosts"
  /\ flight[s].rows = <<>>
  /\ \E order \in NewestFirst(posts,
                              Selected(posts, users,
                                       FindAllWhere(FiltersOf(flight[s].body)).whereConditions,
                                       FindAllWhere(FiltersOf(flight[s].body)).queryParams)) :
       Advance(s, "Validated", [rows |-> <<FindAllNow(flight[s].body, order)>>])
  /\ StoreKept

(* db.query(countQuery, countParams) resolves.                             *)
FlCountQuery(s) ==
  /\ flight[s].phase = "Validated"
  /\ flight[s].op = "getAllPosts"
  /\ flight[s].count = <<>>
  /\ Advance(s, "Validated", [count |-> <<FindAllNow(flight[s].body, <<>>)>>])
  /\ StoreKept

(* One of the two queries rejects (the connection is lost): Promise.all    *)
(* rejects, findAll rethrows, getAllPosts calls next(error).               *)
FlQueryFails(s) ==
  /\ flight[s].phase = "Validated"
  /\ flight[s].op = "getAllPosts"
  /\ flight[s].rows = <<>> \/ flight[s].count = <<>>
  /\ Send(s, "Errored", errorHandler(JsError("Error", "Connection terminated")))
  /\ StoreKept

(* Promise.all resolves: the object findAll returns, rows of the one       *)
(* result and the count of the other.                                      *)
FlCombine(s) ==
  /\ flight[s].phase = "Validated"
  /\ flight[s].op = "getAllPosts"
  /\ flight[s].rows # <<>>
  /\ flight[s].count # <<>>
  /\ Advance(s, "Executed",
             [rows |-> <<[flight[s].rows[1] EXCEPT
                            !.totalCount = flight[s].count[1].totalCount,
                            !.totalPages = flight[s].count[1].totalPages]>>])
  /\ StoreKept

FlRespondList(s) ==
  /\ flight[s].phase = "Executed"
  /\ flight[s].op = "getAllPosts"
  /\ Send(s, "Responded",
          [Reply(200, {"success", "data"}, TRUE, "")
             EXCEPT !.posts = [k \in DOMAIN flight[s].rows[1].posts |->
                                 SerializePost(flight[s].rows[1].posts[k])],
                    !.paging = <<Paging(flight[s].rows[1])>>])
  /\ StoreKept

(* register, one await at a time: validateRegistration, User.findByEmail,  *)
(* User.findByUsername, User.create, then jwt.sign and the response.       *)
FlValidateRegistration(s) ==
  /\ flight[s].phase = "Received"
  /\ flight[s].op = "register"
  /\ \E errors \in {validateRegistration(flight[s].body)} :
       IF errors # <<>> THEN Send(s, "Errored", ValidationFailed(errors))
       ELSE Advance(s, "Validated", [user |-> <<>>])
  /\ StoreKept

FlFindByEmail(s) ==
  /\ flight[s].phase = "Validated"
  /\ flight[s].op = "register"
  /\ IF UserFindByEmail(users, flight[s].body.email) # <<>>
       THEN Send(s, "Errored", Fail(400, "User with this email already exists"))
     ELSE Advance(s, "EmailFree", [user |-> <<>>])
  /\ StoreKept

FlFindByUsername(s) ==
  /\ flight[s].phase = "EmailFree"
  /\ flight[s].op = "register"
  /\ IF UserFindByUsername(users, flight[s].body.username) # <<>>
       THEN Send(s, "Errored", Fail(400, "Username already taken"))
     ELSE Advance(s, "UsernameFree", [user |-> <<>>])
  /\ StoreKept

(* c: the constraint the INSERT reports when it breaks one.                *)
FlCreateUser(s) ==
  /\ flight[s].phase = "UsernameFree"
  /\ flight[s].op = "register"
  /\ \E c \in IF UserUniqueViolations(users, flight[s].body.username,
                                       flight[s].body.email) = {} THEN {""}
              ELSE UserUniqueViolations(users, flight[s].body.username,
                                        flight[s].body.email) :
       \E r \in {UserCreate(users, userSeq, flight[s].body, now, c)} :
         /\ users' = r.users
         /\ userSeq' = r.userSeq
         /\ IF r.ok THEN Advance(s, "Executed", [user |-> <<r.user>>])
            ELSE Send(s, "Errored", errorHandler(r.err))
  /\ UNCHANGED <<posts, postSeq, tokens, now, lastReq, response, qb, built,
              mig>>

FlRespondRegister(s) ==
  /\ flight[s].phase = "Executed"
  /\ flight[s].op = "register"
  /\ tokens' = tokens \cup {jwtSign(flight[s].user[1])}
  /\ Send(s, "Responded",
          [Reply(201, {"success", "message", "data"}, TRUE, "User registered successfully")
             EXCEPT !.users = <<toJSON(flight[s].user[1])>>,
                    !.token = <<jwtSign(flight[s].user[1])>>])
  /\ UNCHANGED <<users, userSeq, posts, postSeq, now, lastReq, response, qb, built,
              mig>>

(* The connection of a request that was answered is gone.                  *)
FlClose(s) ==
  /\ Idle
  /\ flight[s].phase \in {"Responded", "Errored"}
  /\ flight' = [flight EXCEPT ![s] = NoFlight]
  /\ StoreKept


(* --------------------------- the migration runner ---------------------- *)
AppKept ==
  UNCHANGED <<users, userSeq, posts, postSeq, tokens, now, lastReq, response, qb, built,
              flight>>

(* The name of the migration executeMigration was called with.             *)
Current == mig.files[mig.idx]

(* runMigrations is called; dir is what the migrations directory holds,    *)
(* where files are added and none is removed.                              *)
MigStart(dir) ==
  /\ mig.pc \in {"idle", "done", "failed"}
  /\ mig.runs < MaxRuns
  /\ mig.dir \subseteq dir
  /\ mig' = [mig EXCEPT !.pc = "createTable", !.runs = @ + 1, !.dir = dir,
                        !.files = <<>>, !.known = {}, !.idx = 0, !.threw = FALSE]
  /\ AppKept

(* createMigrationsTable rethrows what its query throws.                   *)
MigCreateTable(ok) ==
  /\ mig.pc = "createTable"
  /\ mig' = [mig EXCEPT !.pc = IF ok THEN "readdir" ELSE "failed"]
  /\ AppKept

MigReaddir(ok) ==
  /\ mig.pc = "readdir"
  /\ mig' = [mig EXCEPT !.pc = IF ok THEN "getExecuted" ELSE "failed"]
  /\ AppKept

(* getExecutedMigrations answers [] when its query throws; then the loop   *)
(* starts over the sorted files.                                           *)
MigGetExecuted(ok) ==
  /\ mig.pc = "getExecuted"
  /\ mig' = [mig EXCEPT !.pc = "loop", !.known = IF ok THEN mig.table ELSE {},
                        !.files = SortedFiles(mig.dir), !.idx = 1]
  /\ AppKept

(* for (const file of migrationFiles.sort()) and its if.                   *)
MigNext ==
  /\ mig.pc = "loop"
  /\ mig' = IF mig.idx > Len(mig.files) THEN [mig EXCEPT !.pc = "done"]
            ELSE IF EndsWithSql(Current) /\ Current \notin mig.known
              THEN [mig EXCEPT !.pc = "readFile"]
            ELSE [mig EXCEPT !.idx = @ + 1]
  /\ AppKept

MigReadFile(ok) ==
  /\ mig.pc = "readFile"
  /\ mig' = [mig EXCEPT !.pc = IF ok THEN "connect" ELSE "failed"]
  /\ AppKept

(* executeMigration: db.pool.connect() is awaited before the try.          *)
MigConnect(ok) ==
  /\ mig.pc = "connect"
  /\ mig' = IF ok THEN [mig EXCEPT !.pc = "begin", !.clients = @ + 1]
            ELSE [mig EXCEPT !.pc = "failed"]
  /\ AppKept

MigBegin(ok) ==
  /\ mig.pc = "begin"
  /\ mig' = IF ok THEN [mig EXCEPT !.pc = "sql", !.txn.open = TRUE]
            ELSE [mig EXCEPT !.pc = "rollback"]
  /\ AppKept

MigSql(ok) ==
  /\ mig.pc = "sql"
  /\ mig' = IF ok THEN [mig EXCEPT !.pc = "insert", !.txn.sql = TRUE]
            ELSE [mig EXCEPT !.pc = "rollback"]
  /\ AppKept

MigInsert(fault) ==
  /\ mig.pc = "insert"
  /\ mig' = IF InsertFails(mig.table, Current, fault) THEN [mig EXCEPT !.pc = "rollback"]
            ELSE [mig EXCEPT !.pc = "commit", !.txn.row = TRUE]
  /\ AppKept

(* COMMIT commits, or fails and commits nothing, or commits while the      *)
(* connection is lost before the answer arrives.                           *)
MigCommit(outcome) ==
  /\ mig.pc = "commit"
  /\ mig' = CASE outcome = "committed" -> [Committed(mig, Current) EXCEPT !.pc = "release"]
              [] outcome = "failed" -> [mig EXCEPT !.pc = "rollback"]
              [] outcome = "lost" -> [Committed(mig, Current) EXCEPT !.pc = "rollback"]
  /\ AppKept

(* catch: ROLLBACK, then throw. What the transaction did and did not       *)
(* commit is discarded whether ROLLBACK is answered or throws in its turn. *)
MigRollback ==
  /\ mig.pc = "rollback"
  /\ mig' = [mig EXCEPT !.pc = "release", !.txn = NoTxn, !.threw = TRUE]
  /\ AppKept

(* finally: client.release(); then the loop goes on, or runMigrations      *)
(* rethrows.                                                               *)
MigRelease ==
  /\ mig.pc = "release"
  /\ mig' = IF mig.threw THEN [mig EXCEPT !.pc = "failed", !.clients = @ - 1]
            ELSE [mig EXCEPT !.pc = "loop", !.clients = @ - 1, !.idx = @ + 1]
  /\ AppKept

(* ------------------------------- inputs -------------------------------- *)
Alice == <<"a", "l", "i", "c", "e">>
Bob == <<"b", "o", "b">>
Carol == <<"c", "a", "r", "o", "l">>
MailA == <<"a", "@", "x", ".", "i", "o">>
MailB == <<"b", "@", "x", ".", "i", "o">>
PassA == <<"P", "a", "s", "s", "w", "0", "r", "d">>
PassB == <<"S", "e", "c", "r", "3", "t", "P", "w">>
Ann == <<"A", "n", "n">>
Lee == <<"L", "e", "e">>
Pic == <<"p", ".", "p", "n", "g">>

RegBody(username, email, password, firstName, lastName) ==
  [username |-> username, email |-> email, password |-> password,
   firstName |-> firstName, lastName |-> lastName]

(* Two accounts, no optional fields.                                       *)
SeedRegBodies ==
  {RegBody(Alice, MailA, PassA, Undefined, Undefined),
   RegBody(Bob, MailB, PassB, Undefined, Undefined)}

(* Every pairing of two usernames and two emails, a third username with   *)
(* the first email, and bodies that break one or several validation rules. *)
RegBodies ==
  {RegBody(u, e, IF u = Alice THEN PassA ELSE PassB, Undefined, Undefined) :
     u \in {Alice, Bob}, e \in {MailA, MailB}}
  \cup {RegBody(Carol, MailA, PassA, Undefined, Undefined),
        RegBody(<<"a", "!">>, MailA, PassA, Undefined, Undefined),
        RegBody(Alice, <<"b", "a", "d">>, <<"a", "b", "c">>, Undefined, Undefined),
        RegBody(Undefined, MailB, <<"p", "a", "s", "s", "w", "o", "r", "d">>, Ann, Lee)}

LoginBody(email, password) == [email |-> email, password |-> password]

LoginBodies ==
  {LoginBody(e, p) : e \in {MailA, MailB}, p \in {PassA, PassB}}
  \cup {LoginBody(MailA, Undefined), LoginBody(Undefined, PassA)}

V1RegBodies ==
  {[name |-> n, email |-> MailA, password |-> p] :
     n \in {Alice, Undefined}, p \in {PassA, Undefined}}

ProfileBodies ==
  {[firstName |-> f, lastName |-> l, avatarUrl |-> a] :
     f \in {Undefined, Ann}, l \in {Undefined, Lee}, a \in {Undefined, Pic}}

SeedProfileBodies == {[firstName |-> Ann, lastName |-> Undefined, avatarUrl |-> Undefined]}

Query(page, limit) == [page |-> page, limit |-> limit]

Queries ==
  {Query(p, l) : p \in {Undefined, <<"2">>, <<"0">>, <<"-", "1">>, <<"x">>},
                 l \in {Undefined, <<"1">>, <<"1", "0", "1">>}}

SeedQueries == {Query(Undefined, Undefined), Query(<<"1">>, <<"1">>)}

(* The headers a client can send: tokens it was issued, stale or not, and  *)
(* whatever it makes up.                                                   *)
Headers(kinds) ==
  {Header(k, 0, <<>>) : k \in kinds \cap {"absent", "empty", "garbage"}}
  \cup {Header(k, p.id, p.email) : k \in kinds \cap {"valid", "expired", "forged"},
                                   p \in tokens}

AllKinds == {"absent", "empty", "garbage", "forged", "expired", "valid"}

SeedKinds == {"absent", "expired", "valid"}

UserIds == 1..MaxUserSeq

PostIds == 1..MaxPostSeq

HiTitle == <<"H", "i">>
HiBang == <<"h", "i", "!">>
Yo == <<"Y", "o">>
Text == <<"t", "e", "x", "t">>

PostBody(title, content, status, featuredImage, tags, authorId) ==
  [title |-> title, content |-> content, status |-> status,
   featuredImage |-> featuredImage, tags |-> tags, authorId |-> authorId]

SeedPostBodies ==
  {PostBody(HiTitle, Text, Undefined, Undefined, Undefined, Undefined),
   PostBody(Undefined, Text, Undefined, Undefined, Undefined, Undefined)}

(* authorId: a field the API does not define, sent by a client that tries  *)
(* to write the author.                                                    *)
PostBodies ==
  {PostBody(ti, Text, st, Undefined, tg, au) :
     ti \in {HiTitle, HiBang, Yo}, st \in {Undefined, <<"published">>},
     tg \in {Undefined}, au \in {Undefined, <<"1">>}}
  \cup {PostBody(Undefined, Text, Undefined, Undefined, Undefined, Undefined),
        PostBody(HiTitle, <<>>, <<"bogus">>, Pic, Undefined, Undefined)}

(* Query strings of the list routes: page and limit absent, in and out of  *)
(* range, zero, not a number.                                              *)
PageQueries ==
  {Query(p, Undefined) : p \in {Undefined, <<"1">>, <<"2">>, <<"0">>, <<"-", "1">>, <<"x">>}}
  \cup {Query(Undefined, l) : l \in {<<"1">>, <<"2">>, <<"0">>, <<"x">>, <<"1", "0", "1">>}}
  \cup {Query(<<"2">>, <<"1">>), Query(<<"1">>, <<"2">>), Query(<<"2">>, <<"2">>)}

UserPostQueries ==
  {Query(Undefined, Undefined), Query(<<"1">>, <<"1">>), Query(<<"2">>, <<"1">>)}

ListQuery(page, limit, status, author, search, tags) ==
  [page |-> page, limit |-> limit, status |-> status, author |-> author,
   search |-> search, tags |-> tags]

(* Query strings of GET /posts: combinations of the four filters, absent,  *)
(* plain and with a pattern character, all four empty, and the pages of an *)
(* unfiltered list.                                                        *)
PostQueries ==
  {ListQuery(Undefined, Undefined, st, au, se, tg) :
     st \in {Undefined, <<"published">>},
     au \in {Undefined, <<"A", "L">>},
     se \in {Undefined, <<"h", "I">>, <<"_">>},
     tg \in {Undefined, <<"b", ",", "c">>}}
  \cup {ListQuery(Undefined, Undefined, <<>>, <<>>, <<>>, <<>>)}
  \cup {ListQuery(q.page, q.limit, Undefined, Undefined, Undefined, Undefined) :
          q \in PageQueries}

(* Posts that differ in title, content, status and tags.                   *)
ListPostBodies ==
  {PostBody(HiTitle, Text, Undefined, Undefined, <<<<"a">>>>, Undefined),
   PostBody(Yo, Text, <<"published">>, Undefined, <<<<"a">>, <<"b">>>>, Undefined),
   PostBody(HiBang, <<"y", "o">>, <<"published">>, Undefined, Undefined, Undefined)}

(* ---------------------------- specifications --------------------------- *)
(* Every route, each with a few bodies and every kind of header, all      *)
(* within one reading of the clock.                                        *)
Next ==
  \/ Respond
  \/ \E body \in SeedRegBodies : Register(body)
  \/ \E body \in {LoginBody(MailA, PassA), LoginBody(MailA, PassB)} : Login(body)
  \/ \E body \in {[name |-> Alice, email |-> MailA, password |-> PassA]} : RegisterUser(body)
  \/ \E body \in {LoginBody(MailA, PassA), LoginBody(MailB, PassA)} : LoginUser(body)
  \/ \E hdr \in Headers(AllKinds) : GetProfile(hdr)
  \/ \E hdr \in Headers(AllKinds), body \in SeedProfileBodies : UpdateProfile(hdr, body)
  \/ \E hdr \in Headers(AllKinds), query \in SeedQueries : GetAllUsers(hdr, query)
  \/ \E hdr \in Headers(AllKinds), id \in UserIds : GetUserById(hdr, id)
  \/ \E hdr \in Headers(AllKinds), id \in UserIds, query \in SeedQueries :
       GetUserPosts(hdr, id, query)
  \/ \E hdr \in Headers(AllKinds), id \in UserIds : DeleteUser(hdr, id)
  \/ \E hdr \in Headers(AllKinds), body \in SeedPostBodies : CreatePost(hdr, body)
  \/ \E hdr \in Headers({"absent", "valid"}), id \in PostIds : GetPostById(hdr, id)
  \/ \E hdr \in Headers(AllKinds), id \in PostIds, body \in SeedPostBodies :
       UpdatePost(hdr, id, body)
  \/ \E hdr \in Headers(AllKinds), id \in PostIds : DeletePost(hdr, id)

Spec == Init /\ [][Next]_vars

(* The account routes and the v1 handlers, with every pairing of usernames *)
(* and emails, right and wrong passwords, and soft deletion.               *)
NextAuth ==
  \/ Tick
  \/ Respond
  \/ \E body \in RegBodies : Register(body)
  \/ \E body \in LoginBodies : Login(body)
  \/ \E body \in V1RegBodies : RegisterUser(body)
  \/ \E body \in LoginBodies : LoginUser(body)
  \/ \E hdr \in Headers(SeedKinds) : GetProfile(hdr)
  \/ \E hdr \in Headers(SeedKinds), body \in SeedProfileBodies : UpdateProfile(hdr, body)
  \/ \E hdr \in Headers(SeedKinds), query \in SeedQueries : GetAllUsers(hdr, query)
  \/ \E hdr \in Headers(SeedKinds), id \in UserIds : GetUserById(hdr, id)
  \/ \E hdr \in Headers(SeedKinds), id \in UserIds : DeleteUser(hdr, id)

SpecAuth == Init /\ [][NextAuth]_vars

(* The post routes, for two registered accounts, with bodies that carry    *)
(* every field, an author id among them, and titles of equal and of        *)
(* different slugs, all within one reading of the clock.                   *)
NextPosts ==
  \/ Respond
  \/ \E body \in SeedRegBodies : Register(body)
  \/ \E hdr \in Headers(SeedKinds), body \in PostBodies : CreatePost(hdr, body)
  \/ \E hdr \in Headers({"absent"}), id \in PostIds : GetPostById(hdr, id)
  \/ \E hdr \in Headers(SeedKinds), id \in PostIds, body \in PostBodies :
       UpdatePost(hdr, id, body)
  \/ \E hdr \in Headers(SeedKinds), id \in PostIds : DeletePost(hdr, id)

SpecPosts == Init /\ [][NextPosts]_vars

(* The list routes over posts of different age, status and tags, by two    *)
(* authors.                                                                *)
NextList ==
  \/ Tick
  \/ Respond
  \/ \E body \in SeedRegBodies : Register(body)
  \/ \E hdr \in Headers({"valid"}), body \in ListPostBodies : CreatePost(hdr, body)
  \/ \E hdr \in Headers({"absent"}), query \in PostQueries : GetAllPosts(hdr, query)
  \/ \E hdr \in Headers({"valid"}), query \in PageQueries : GetAllUsers(hdr, query)
  \/ \E hdr \in Headers({"valid"}), id \in UserIds, query \in UserPostQueries :
       GetUserPosts(hdr, id, query)

SpecList == Init /\ [][NextList]_vars

(* updateData objects and profile bodies: every choice of present and     *)
(* undefined among a few fields, one of them with a camel-case key, one    *)
(* under a UNIQUE constraint.                                              *)
UserUpdates ==
  {[first_name |-> f, last_name |-> l, avatar_url |-> Undefined] :
     f \in {Undefined, Ann}, l \in {Undefined, Lee}}

UpdateProfileBodies ==
  {[firstName |-> f, lastName |-> l, avatarUrl |-> Undefined] :
     f \in {Undefined, Ann}, l \in {Undefined, Lee}}

PostUpdates ==
  {[title |-> Undefined, slug |-> sl, featuredImage |-> fi] :
     sl \in {Undefined, <<"y", "o">>}, fi \in {Undefined, Pic}}

(* The update of the first account's profile through its route, and update *)
(* of that account and of its posts called with every updateData, at the   *)
(* time of creation and later, beside a second account.                    *)
NextUpdate ==
  \/ Tick
  \/ Respond
  \/ \E body \in SeedRegBodies : Register(body)
  \/ \E hdr \in {h \in Headers({"valid"}) : h.id = 1}, body \in SeedPostBodies :
       CreatePost(hdr, body)
  \/ \E hdr \in {h \in Headers({"valid"}) : h.id = 1}, body \in UpdateProfileBodies :
       UpdateProfile(hdr, body)
  \/ \E id \in {1}, updateData \in UserUpdates : User_update(id, updateData)
  \/ \E id \in PostIds, updateData \in PostUpdates : Post_update(id, updateData)

SpecUpdate == Init /\ [][NextUpdate]_vars

(* Arguments of the builder's calls: strings, present, empty and absent,   *)
(* arrays of no, one, two and three items, one and two search fields.      *)
Dr == <<"d", "r">>
Pu == <<"p", "u">>
Day == <<"0", "1">>

QbStrings == {Undefined, <<>>, Dr}

QbItems == <<Dr, Pu, Day>>

QbFieldLists == {<<>>, <<"title">>, <<"title", "content">>}

(* Every sequence of calls on one builder, and new builders.               *)
NextBuilder ==
  \/ QbNew
  \/ \E operator \in {"=", "ILIKE", "IN", "BETWEEN"}, value \in QbStrings :
       QbAddCondition("status", operator, value)
  \/ \E operator \in {"IN", "BETWEEN"}, n \in 0..Len(QbItems) :
       QbAddCondition("status", operator, ArrayOf(SubSeq(QbItems, 1, n)))
  \/ \E fields \in QbFieldLists, searchTerm \in QbStrings :
       QbAddTextSearch(fields, searchTerm)
  \/ \E startDate \in {Undefined, Day}, endDate \in {Undefined, Day} :
       QbAddDateRange("created_at", startDate, endDate)
  \/ QbBuild

SpecBuilder == Init /\ [][NextBuilder]_vars

(* Updates and deletes of the first post, by its author, by another        *)
(* account and without a token, handled at the same time, one await after  *)
(* another: the first connection carries either, the others deletes.       *)
FlightBodies ==
  {PostBody(Yo, Text, Undefined, Undefined, Undefined, Undefined),
   PostBody(Undefined, Text, Undefined, Undefined, Undefined, Undefined)}

NextFlight ==
  \/ Respond
  \/ \E body \in SeedRegBodies : Register(body)
  \/ \E hdr \in Headers({"valid"}) :
       CreatePost(hdr, PostBody(HiTitle, Text, Undefined, Undefined, Undefined, Undefined))
  \/ \E hdr \in Headers({"absent", "valid"}), body \in FlightBodies :
       FlReceive(1, "updatePost", hdr, 1, body)
  \/ \E hdr \in Headers({"absent", "valid"}) :
       FlReceive(MaxFlight, "deletePost", hdr, 1, NoBody)
  \/ \E s \in 1..MaxFlight : FlAuth(s)
  \/ \E s \in 1..MaxFlight : FlValidatePost(s)
  \/ \E s \in 1..MaxFlight : FlLoadPost(s)
  \/ \E s \in 1..MaxFlight : FlWritePost(s)
  \/ \E s \in 1..MaxFlight : FlRespond(s)
  \/ \E s \in 1..MaxFlight : FlClose(s)

SpecFlight == Init /\ [][NextFlight]_vars

(* A list of posts in flight beside creations and deletions.                *)
NoFilters == ListQuery(Undefined, Undefined, Undefined, Undefined, Undefined, Undefined)

NextListFlight ==
  \/ Respond
  \/ \E body \in SeedRegBodies : Register(body)
  \/ \E hdr \in Headers({"valid"}) :
       CreatePost(hdr, PostBody(HiTitle, Text, Undefined, Undefined, Undefined, Undefined))
  \/ \E hdr \in Headers({"valid"}), id \in 1..MaxPostSeq : DeletePost(hdr, id)
  \/ \E query \in {NoFilters, [NoFilters EXCEPT !.page = <<"0">>]} :
       FlReceive(1, "getAllPosts", Header("absent", 0, <<>>), 0, query)
  \/ \E s \in 1..MaxFlight : FlValidatePagination(s)
  \/ \E s \in 1..MaxFlight : FlRowQuery(s)
  \/ \E s \in 1..MaxFlight : FlCountQuery(s)
  \/ \E s \in 1..MaxFlight : FlQueryFails(s)
  \/ \E s \in 1..MaxFlight : FlCombine(s)
  \/ \E s \in 1..MaxFlight : FlRespondList(s)
  \/ \E s \in 1..MaxFlight : FlClose(s)

SpecListFlight == Init /\ [][NextListFlight]_vars

(* Registrations in flight together: bodies that share an email, bodies    *)
(* that share a username, and one that fails validation.                   *)
FlightRegBodies ==
  {RegBody(Alice, MailA, PassA, Undefined, Undefined),
   RegBody(Bob, MailA, PassB, Undefined, Undefined),
   RegBody(Alice, MailB, PassA, Undefined, Undefined),
   RegBody(<<"a", "!">>, MailB, PassA, Undefined, Undefined)}

NextRegFlight ==
  \/ \E s \in 1..MaxFlight, body \in FlightRegBodies :
       userSeq <= MaxUserSeq /\ FlReceive(s, "register", NoHeader, 0, body)
  \/ \E s \in 1..MaxFlight : FlValidateRegistration(s)
  \/ \E s \in 1..MaxFlight : FlFindByEmail(s)
  \/ \E s \in 1..MaxFlight : FlFindByUsername(s)
  \/ \E s \in 1..MaxFlight : FlCreateUser(s)
  \/ \E s \in 1..MaxFlight : FlRespondRegister(s)
  \/ \E s \in 1..MaxFlight : FlClose(s)

SpecRegFlight == Init /\ [][NextRegFlight]_vars

(* Runs of the migration runner over a directory that grows, where every   *)
(* query, the read of a file and the connection may fail.                  *)
NextMigrate ==
  \/ \E dir \in SUBSET FileNames : MigStart(dir)
  \/ \E ok \in BOOLEAN : MigCreateTable(ok)
  \/ \E ok \in BOOLEAN : MigReaddir(ok)
  \/ \E ok \in BOOLEAN : MigGetExecuted(ok)
  \/ MigNext
  \/ \E ok \in BOOLEAN : MigReadFile(ok)
  \/ \E ok \in BOOLEAN : MigConnect(ok)
  \/ \E ok \in BOOLEAN : MigBegin(ok)
  \/ \E ok \in BOOLEAN : MigSql(ok)
  \/ \E fault \in BOOLEAN : MigInsert(fault)
  \/ \E outcome \in {"committed", "failed", "lost"} : MigCommit(outcome)
  \/ MigRollback
  \/ MigRelease

SpecMigrate == Init /\ [][NextMigrate]_vars

(* Every await of a request in flight resolves, and the event loop then    *)
(* runs its continuation. FlWritePost(s) is enabled exactly in the phase   *)
(* Authorized and is the one step that leaves it, which states its weak    *)
(* fairness without the rows it writes.                                    *)
SpecFlightFair ==
  /\ SpecFlight
  /\ \A s \in 1..MaxFlight :
       /\ WF_vars(FlAuth(s) \/ FlValidatePost(s) \/ FlLoadPost(s) \/ FlRespond(s))
       /\ []<>(flight[s].phase # "Authorized")

(* ------------------------------ properties ----------------------------- *)
(* The requester a request is made by: the active account whose token, one *)
(* the server signed and still within its lifetime, the request carries.   *)
Authenticated(req, utbl) ==
  /\ req.hdr.kind = "valid"
  /\ req.hdr.id \in DOMAIN utbl
  /\ utbl[req.hdr.id].is_active

StoreUnchanged ==
  UNCHANGED <<users, userSeq, posts, postSeq, tokens>>

(* C1, for one of the two routes. A PUT body that validatePost rejects is  *)
(* answered 400 by the validator, which runs before the controller.        *)
C1_Route(op) ==
  (/\ Idle
   /\ lastReq'.op = op
   /\ Authenticated(lastReq', users)
   /\ op = "updatePost" => validatePost(lastReq'.body) = <<>>)
  => /\ lastReq'.id \notin DOMAIN posts
          => /\ response'.status = 404
             /\ response'.message = "Post not found"
             /\ posts' = posts
     /\ (lastReq'.id \in DOMAIN posts
           /\ posts[lastReq'.id].author_id # lastReq'.hdr.id)
          => /\ response'.status = 403
             /\ posts' = posts

(* C1: PUT /posts/:id and DELETE /posts/:id by an authenticated requester  *)
(* answer 404 when no post has that id and 403 when the post exists and    *)
(* its author is another user (so a missing post is never a 403), and the  *)
(* posts table is the same after either rejection.                         *)
C1_NotFoundBeforeForbidden ==
  [][C1_Route("updatePost") /\ C1_Route("deletePost")]_vars

(* A non-author's PUT on an existing post has been answered 403.           *)
C1_Witness ==
  /\ lastReq.op = "updatePost"
  /\ Authenticated(lastReq, users)
  /\ lastReq.id \in DOMAIN posts
  /\ posts[lastReq.id].author_id # lastReq.hdr.id
  /\ response.status = 403

(* C2: a stored post changes or disappears only in a PUT or DELETE on that *)
(* post's id made by the authenticated user who is the post's author.      *)
C2_OnlyAuthorModifies ==
  [][\A p \in DOMAIN posts :
       (p \notin DOMAIN posts' \/ posts'[p] # posts[p])
         => /\ lastReq'.op \in {"updatePost", "deletePost"}
            /\ lastReq'.id = p
            /\ Authenticated(lastReq', users)
            /\ lastReq'.hdr.id = posts[p].author_id]_vars

(* An author has deleted one of two stored posts; the other author's post  *)
(* is still there.                                                         *)
C2_Witness ==
  /\ lastReq.op = "deletePost"
  /\ response.status = 200
  /\ lastReq.id \notin DOMAIN posts
  /\ \E p \in DOMAIN posts : posts[p].author_id # lastReq.hdr.id

(* C3: the author_id of a stored post is the same after every step, for    *)
(* every update body, one that carries an authorId field included.         *)
C3_AuthorNeverChanges ==
  [][\A p \in DOMAIN posts \cap DOMAIN posts' :
       posts'[p].author_id = posts[p].author_id]_vars

(* An update whose body names another user as authorId has succeeded.      *)
C3_Witness ==
  /\ lastReq.op = "updatePost"
  /\ response.status = 200
  /\ lastReq.body.authorId # Undefined
  /\ DecVal(lastReq.body.authorId) # posts[lastReq.id].author_id
  /\ posts[lastReq.id].title = lastReq.body.title

(* C4: the post POST /posts creates has the authenticated requester as its *)
(* author, in the row and in the response, whatever the body carries, and  *)
(* status draft when the body gives no status.                             *)
C4_CreatedPostAuthorAndStatus ==
  (lastReq.op = "createPost" /\ response.status = 201)
  => LET p == response.posts[1]
     IN /\ p.id \in DOMAIN posts
        /\ p.authorId = lastReq.hdr.id
        /\ posts[p.id].author_id = lastReq.hdr.id
        /\ lastReq.body.status = Undefined
             => p.status = <<"draft">> /\ posts[p.id].status = <<"draft">>

(* A post has been created from a body that names another user as authorId *)
(* and gives no status.                                                    *)
C4_Witness ==
  /\ lastReq.op = "createPost"
  /\ response.status = 201
  /\ lastReq.body.authorId # Undefined
  /\ DecVal(lastReq.body.authorId) # lastReq.hdr.id
  /\ lastReq.body.status = Undefined

(* C5: no user object a response carries, alone, in a list or as the       *)
(* author embedded in a post, has a password property, and neither has the *)
(* payload of an issued token.                                             *)
C5_NoPasswordInResponses ==
  /\ \A k \in DOMAIN response.users : "password" \notin DOMAIN response.users[k]
  /\ \A k \in DOMAIN response.posts :
       "author" \in DOMAIN response.posts[k]
         => "password" \notin DOMAIN response.posts[k].author
  /\ \A k \in DOMAIN response.token : "password" \notin DOMAIN response.token[k]

(* A login has returned the user whose row holds a password hash.          *)
C5_Witness ==
  /\ lastReq.op = "login"
  /\ response.status = 200
  /\ Len(response.users) = 1
  /\ users[response.users[1].id].password = BcryptHash(lastReq.body.password)

EmailUsed(body) == \E i \in DOMAIN users : users[i].email = body.email

UsernameUsed(body) == \E i \in DOMAIN users : users[i].username = body.username

EmailExistsMessages == {"User with this email already exists", "Email already exists"}

UsernameTakenMessages == {"Username already taken", "Username already exists"}

(* C6: a registration that passes validateRegistration and whose email or  *)
(* username is held by a stored user, soft-deleted ones included, gets a   *)
(* 4xx response and leaves the users table as it was; the message says the *)
(* email exists when only the email is used, that the username is taken    *)
(* when only the username is used, and one of the two when both are.       *)
C6_DuplicateRegistrationRejected ==
  [][(/\ Idle
      /\ lastReq'.op = "register"
      /\ validateRegistration(lastReq'.body) = <<>>
      /\ EmailUsed(lastReq'.body) \/ UsernameUsed(lastReq'.body))
     => /\ response'.status \in 400..499
        /\ users' = users
        /\ response'.message \in EmailExistsMessages \cup UsernameTakenMessages
        /\ ~UsernameUsed(lastReq'.body) => response'.message \in EmailExistsMessages
        /\ ~EmailUsed(lastReq'.body) => response'.message \in UsernameTakenMessages]_vars

(* A registration with the email of a soft-deleted user and a fresh        *)
(* username has been rejected.                                             *)
C6_Witness ==
  /\ lastReq.op = "register"
  /\ response.status = 400
  /\ response.message \in EmailExistsMessages
  /\ ~UsernameUsed(lastReq.body)
  /\ \E i \in DOMAIN users : ~users[i].is_active /\ users[i].email = lastReq.body.email

(* C7, as the claim states it: a login that carries an email and a         *)
(* password and fails is answered 401 with the handler's one generic       *)
(* message, whether the email is unknown or the password is wrong.         *)
C7_FailedLoginIsUniform ==
  (/\ lastReq.op \in {"login", "loginUser"}
   /\ IsString(lastReq.body.email)
   /\ IsString(lastReq.body.password)
   /\ response.status # 200)
  => /\ response.status = 401
     /\ response.message = IF lastReq.op = "login" THEN "Invalid email or password"
                            ELSE "Invalid credentials"

(* C8: a successful registration stores exactly one hash of the password   *)
(* it submitted; no step changes a stored email or password; and a login   *)
(* with the email of an active user and the password whose hash that user  *)
(* stores is answered 200 with a token.                                    *)
C8_RegisterThenLogin ==
  [][/\ (Idle /\ lastReq'.op = "register" /\ response'.status = 201)
        => LET id == response'.users[1].id
           IN /\ id \in (DOMAIN users') \ DOMAIN users
              /\ users'[id].email = lastReq'.body.email
              /\ users'[id].password = BcryptHash(lastReq'.body.password)
              /\ users'[id].is_active
     /\ \A i \in DOMAIN users :
          /\ i \in DOMAIN users'
          /\ users'[i].email = users[i].email
          /\ users'[i].password = users[i].password
     /\ (/\ Idle
         /\ lastReq'.op = "login"
         /\ \E i \in DOMAIN users :
              /\ users[i].is_active
              /\ users[i].email = lastReq'.body.email
              /\ IsString(lastReq'.body.password)
              /\ users[i].password = BcryptHash(lastReq'.body.password))
        => /\ response'.status = 200
           /\ Len(response'.token) = 1
           /\ users[response'.token[1].id].email = lastReq'.body.email]_vars

(* A registered user has logged in with the password of the registration,  *)
(* while another account has been soft-deleted.                            *)
C8_Witness ==
  /\ lastReq.op = "login"
  /\ response.status = 200
  /\ Len(response.token) = 1
  /\ \E i \in DOMAIN users : ~users[i].is_active

ProtectedOps ==
  {"getProfile", "updateProfile", "getAllUsers", "getUserById", "getUserPosts",
   "deleteUser", "createPost", "updatePost", "deletePost"}

(* C10: on a route behind auth, a request with no token, with one that     *)
(* does not verify or has expired, or with one whose user is not an active *)
(* row is answered 401 and changes nothing in the store.                   *)
C10_AuthGate ==
  [][(/\ Idle
      /\ lastReq'.op \in ProtectedOps
      /\ ~Authenticated(lastReq', users))
     => /\ response'.status = 401
        /\ response'.success = FALSE
        /\ StoreUnchanged]_vars

(* The token of a soft-deleted user has been refused on a route behind     *)
(* auth.                                                                   *)
C10_Witness ==
  /\ lastReq.op \in ProtectedOps
  /\ lastReq.hdr.kind = "valid"
  /\ lastReq.hdr.id \in DOMAIN users
  /\ ~users[lastReq.hdr.id].is_active
  /\ response.status = 401

(* The users table has no role column and auth sets req.user to the row:   *)
(* an administrator would be a user whose row says so.                     *)
IsAdministrator(row) == "role" \in DOMAIN row /\ row.role = <<"admin">>

(* C11, as the claim states it: a user's account is deactivated only in a  *)
(* DELETE /users/:id made by an authenticated administrator.               *)
C11_DeleteUserAdminOnly ==
  [][\A i \in DOMAIN users :
       (users[i].is_active /\ ~users'[i].is_active)
         => /\ lastReq'.op = "deleteUser"
            /\ Authenticated(lastReq', users)
            /\ IsAdministrator(users[lastReq'.hdr.id])]_vars

ListOps == {"getAllPosts", "getAllUsers", "getUserPosts"}

(* The request gets as far as validatePagination: GET /posts always, the   *)
(* two user lists when auth lets it through.                               *)
ReachesPagination(req) ==
  \/ req.op = "getAllPosts"
  \/ req.op \in {"getAllUsers", "getUserPosts"} /\ Authenticated(req, users)

(* A decimal integer, with or without a minus sign.                        *)
Numeric(s) ==
  /\ s # Undefined
  /\ s # <<>>
  /\ LET d == IF Head(s) = "-" THEN Tail(s) ELSE s
     IN d # <<>> /\ \A i \in DOMAIN d : d[i] \in DigitChars

NumberOf(s) == IF Head(s) = "-" THEN 0 - DecVal(Tail(s)) ELSE DecVal(s)

BadPage(q) == q.page # Undefined /\ (~Numeric(q.page) \/ NumberOf(q.page) < 1)

BadLimit(q) ==
  q.limit # Undefined
    /\ (~Numeric(q.limit) \/ NumberOf(q.limit) < 1 \/ NumberOf(q.limit) > 100)

(* C12, as the claim states it: a list request whose page is present and   *)
(* not a number or below 1, or whose limit is present and not a number,    *)
(* below 1 or above 100, is answered 400.                                  *)
C12_PaginationRejects ==
  (/\ lastReq.op \in ListOps
   /\ ReachesPagination(lastReq)
   /\ BadPage(lastReq.body) \/ BadLimit(lastReq.body))
  => response.status = 400

(* C13: when a list request has passed validatePagination and been served, *)
(* the page and the limit the handler hands to the list operation are a    *)
(* page >= 1 and a limit in 1..100, 1 for a missing page and 10 for a      *)
(* missing limit, the offset is not negative, and the page is the one the  *)
(* result reports.                                                         *)
C13_PageAndLimitInRange ==
  (lastReq.op \in ListOps /\ response.status = 200)
  => LET page == PageOf(lastReq.body)
         limit == LimitOf(lastReq.body)
     IN /\ page >= 1
        /\ limit >= 1
        /\ limit <= 100
        /\ (page - 1) * limit >= 0
        /\ lastReq.body.page = Undefined => page = 1
        /\ lastReq.body.limit = Undefined => limit = 10
        /\ response.paging[1].currentPage = page

(* A list has been served for a query that names neither page nor limit,   *)
(* and one for a query whose page is the text 0.                           *)
C13_Witness ==
  /\ lastReq.op = "getAllPosts"
  /\ response.status = 200
  /\ lastReq.body.page = <<"0">>
  /\ lastReq.body.limit = Undefined
  /\ response.posts # <<>>

(* The rows a served list request counts: the active users, the posts of   *)
(* the author, the posts the WHERE clause of the filters selects.          *)
Matching(req) ==
  CASE req.op = "getAllUsers" -> {i \in DOMAIN users : users[i].is_active}
    [] req.op = "getUserPosts" -> {i \in DOMAIN posts : posts[i].author_id = req.id}
    [] req.op = "getAllPosts" ->
         Selected(posts, users, FindAllWhere(FiltersOf(req.body)).whereConditions,
                  FindAllWhere(FiltersOf(req.body)).queryParams)

Items(req, resp) == IF req.op = "getAllUsers" THEN resp.users ELSE resp.posts

(* C14: a served list of posts, of users or of an author's posts has at    *)
(* most limit items, all of them rows that match, and reports totalCount   *)
(* = the number of matching rows, currentPage = the requested page and     *)
(* totalPages = the least n with n * limit >= totalCount.                  *)
C14_ListResultShape ==
  (lastReq.op \in ListOps /\ response.status = 200)
  => LET page == PageOf(lastReq.body)
         limit == LimitOf(lastReq.body)
         items == Items(lastReq, response)
         paging == response.paging[1]
     IN /\ Len(items) <= limit
        /\ \A k \in DOMAIN items : items[k].id \in Matching(lastReq)
        /\ \A k, l \in DOMAIN items : k # l => items[k].id # items[l].id
        /\ paging.totalCount = Cardinality(Matching(lastReq))
        /\ paging.currentPage = page
        /\ paging.totalPages * limit >= paging.totalCount
        /\ (paging.totalPages - 1) * limit < paging.totalCount

(* The second page of one post each of a list of two posts.                *)
C14_Witness ==
  /\ lastReq.op = "getAllPosts"
  /\ response.status = 200
  /\ lastReq.body.page = <<"2">>
  /\ lastReq.body.limit = <<"1">>
  /\ Len(response.posts) = 1
  /\ response.paging[1].totalCount = 2
  /\ response.paging[1].totalPages = 2

(* needle occurs in hay as a run of consecutive characters, letters taken  *)
(* without regard to case.                                                 *)
ContainsIgnoringCase(hay, needle) ==
  \E i \in 0..(Len(hay) - Len(needle)) :
    \A j \in 1..Len(needle) : ToLower(hay[i + j]) = ToLower(needle[j])

(* The post satisfies every filter the query carries a value for.          *)
SatisfiesFilters(row, q) ==
  /\ Truthy(q.status) => row.status = q.status
  /\ Truthy(q.author) => ContainsIgnoringCase(users[row.author_id].username, q.author)
  /\ Truthy(q.search) => \/ ContainsIgnoringCase(row.title, q.search)
                         \/ ContainsIgnoringCase(row.content, q.search)
  /\ Truthy(q.tags) => /\ row.tags # Null
                       /\ \E i \in DOMAIN row.tags, j \in DOMAIN SplitComma(q.tags) :
                            row.tags[i] = SplitComma(q.tags)[j]

(* C15, as the claim states it: GET /posts counts and returns exactly the  *)
(* posts that satisfy every filter present (status equal, author username  *)
(* containing the value, title or content containing the value, a tag in   *)
(* common), newest first, absent filters selecting every post.             *)
C15_FiltersSelectExactly ==
  (lastReq.op = "getAllPosts" /\ response.status = 200)
  => /\ response.paging[1].totalCount
          = Cardinality({i \in DOMAIN posts : SatisfiesFilters(posts[i], lastReq.body)})
     /\ \A k \in DOMAIN response.posts :
          SatisfiesFilters(posts[response.posts[k].id], lastReq.body)
     /\ \A k, l \in DOMAIN response.posts :
          k < l => response.posts[k].createdAt >= response.posts[l].createdAt

(* C16: deleting a user is a soft delete, deleting a post a hard delete:   *)
(* no step removes a row of the users table; a successful deleteUser       *)
(* leaves the target's row in place, marked inactive, with its modified    *)
(* time set and nothing else changed; a successful deletePost removes the  *)
(* target's row, and a post id whose row is gone stays without a row.      *)
C16_SoftUserHardPost ==
  [][/\ DOMAIN users \subseteq DOMAIN users'
     /\ (lastReq'.op = "deleteUser" /\ response'.status = 200) =>
          /\ lastReq'.id \in DOMAIN users
          /\ users' = [users EXCEPT ![lastReq'.id] =
                         [@ EXCEPT !.is_active = FALSE, !.updated_at = now']]
          /\ posts' = posts
     /\ (lastReq'.op = "deletePost" /\ response'.status = 200) =>
          /\ lastReq'.id \in DOMAIN posts
          /\ DOMAIN posts' = (DOMAIN posts) \ {lastReq'.id}
          /\ \A i \in DOMAIN posts' : posts'[i] = posts[i]
          /\ users' = users
     /\ \A p \in 1..(postSeq - 1) : p \notin DOMAIN posts => p \notin DOMAIN posts'
    ]_vars

(* A post has just been deleted while a soft-deleted account's row is kept. *)
C16_Witness ==
  /\ lastReq.op = "deletePost"
  /\ response.status = 200
  /\ lastReq.id \notin DOMAIN posts
  /\ \E i \in DOMAIN users : ~users[i].is_active

(* C17: at every moment after a user is soft-deleted, findById with its    *)
(* id, findByEmail with its email and findByUsername with its username     *)
(* find nothing, and the user list leaves it out: a lookup of the account  *)
(* by id is answered not-found, a login with its email fails, and no list  *)
(* of users that is served carries it.                                     *)
C17_SoftDeletedInvisible ==
  \A i \in DOMAIN users : ~users[i].is_active =>
    /\ UserFindById(users, i) = <<>>
    /\ UserFindByEmail(users, users[i].email) = <<>>
    /\ UserFindByUsername(users, users[i].username) = <<>>
    /\ \A o \in NewestFirst(users, {j \in DOMAIN users : users[j].is_active}) :
         \A k \in DOMAIN o : o[k] # i
    /\ (lastReq.op = "getUserById" /\ lastReq.id = i) => response.status \in {401, 404}
    /\ (lastReq.op \in {"login", "loginUser"} /\ lastReq.body.email = users[i].email)
         => response.status # 200
    /\ (lastReq.op = "getAllUsers" /\ response.status = 200)
         => \A k \in DOMAIN response.users : response.users[k].id # i

(* A login with the email and the password of a soft-deleted account has   *)
(* just been refused.                                                      *)
C17_Witness ==
  /\ lastReq.op = "login"
  /\ response.status = 401
  /\ \E i \in DOMAIN users :
       /\ ~users[i].is_active
       /\ users[i].email = lastReq.body.email
       /\ IsString(lastReq.body.password)
       /\ BcryptCompare(lastReq.body.password, users[i].password)

(* C18: update changes exactly the fields whose value is not undefined,    *)
(* and the modified time, of the one row it is called on; every other      *)
(* column of the row, every other row and the other table stay as they     *)
(* were, and the object returned is the row as written. With no field      *)
(* given nothing is written, the modified time included, and the object    *)
(* returned is the row as it stands.                                       *)
Given(updateData) == {k \in DOMAIN updateData : updateData[k] # Undefined}

UserUpdateFrame(id, updateData, returned) ==
  /\ posts' = posts
  /\ DOMAIN users' = DOMAIN users
  /\ \A j \in (DOMAIN users) \ {id} : users'[j] = users[j]
  /\ Given(updateData) = {} => users' = users
  /\ Given(updateData) # {} =>
       \A col \in UserColumns :
         users'[id][col] = IF col \in Given(updateData) THEN updateData[col]
                           ELSE IF col = "updated_at" THEN now'
                           ELSE users[id][col]
  /\ \A col \in UserColumns \ {"password"} : returned[UserProp(col)] = users'[id][col]

PostUpdateFrame(id, updateData, returned) ==
  /\ users' = users
  /\ DOMAIN posts' = DOMAIN posts
  /\ \A j \in (DOMAIN posts) \ {id} : posts'[j] = posts[j]
  /\ Given(updateData) = {} => posts' = posts
  /\ Given(updateData) # {} =>
       \A col \in PostColumns :
         posts'[id][col] = IF PostProp(col) \in Given(updateData)
                             THEN updateData[PostProp(col)]
                           ELSE IF col = "updated_at" THEN now'
                           ELSE posts[id][col]
  /\ \A col \in PostColumns : returned[PostProp(col)] = posts'[id][col]

C18_UpdateFrame ==
  [][/\ (lastReq'.op = "User.update" /\ response'.success) =>
          /\ UserUpdateFrame(lastReq'.id, lastReq'.body, response'.users[1])
          /\ response'.users[1].password = users'[lastReq'.id].password
     /\ (lastReq'.op = "updateProfile" /\ response'.status = 200) =>
          UserUpdateFrame(lastReq'.hdr.id,
                          [first_name |-> lastReq'.body.firstName,
                           last_name |-> lastReq'.body.lastName,
                           avatar_url |-> lastReq'.body.avatarUrl],
                          response'.users[1])
     /\ (lastReq'.op = "Post.update" /\ response'.success) =>
          PostUpdateFrame(lastReq'.id, lastReq'.body, response'.posts[1])
     /\ (lastReq'.op = "Post.update" /\ ~response'.success) => StoreUnchanged
    ]_vars

(* A profile with a last name has just been given a first name only, at a  *)
(* later time than the account was made.                                   *)
C18_Witness ==
  /\ lastReq.op = "updateProfile"
  /\ response.status = 200
  /\ Given(lastReq.body) = {"firstName"}
  /\ users[lastReq.hdr.id].last_name = Lee
  /\ users[lastReq.hdr.id].updated_at > users[lastReq.hdr.id].created_at

(* The numbers a list of conditions carries, in the order of the text.     *)
RECURSIVE PlaceholdersOf(_)
PlaceholdersOf(conds) ==
  IF conds = <<>> THEN <<>> ELSE Head(conds).placeholders \o PlaceholdersOf(Tail(conds))

(* The placeholders of a text are those of a parameter list of length n:   *)
(* they are 1..n, each first met after all the smaller ones.               *)
Numbered(places, n) ==
  /\ {places[i] : i \in DOMAIN places} = 1..n
  /\ \A i, j \in DOMAIN places : i < j => places[i] <= places[j]

(* C19: whatever calls were made on a builder, the placeholders of its     *)
(* conditions are numbered 1..n for its n parameters, and so are those of  *)
(* what build returned; and for every combination of present and absent    *)
(* filters of Post.findAll the row query's placeholders, LIMIT and OFFSET  *)
(* last, are numbered as its parameters, every placeholder is bound to the *)
(* value of its condition, and the count query gets the same conditions    *)
(* with the same parameters less the two of LIMIT and OFFSET.              *)
C19_PlaceholdersMatchParams ==
  /\ Numbered(PlaceholdersOf(qb.conditions), Len(qb.params))
  /\ Numbered(PlaceholdersOf(built.whereClause), Len(built.params))
  /\ \A st \in {Undefined, Dr}, au \in {Undefined, Pu}, se \in {Undefined, Day},
        tg \in BOOLEAN :
       LET q == FindAllQuery([status |-> st, author |-> au, search |-> se,
                              tags |-> IF tg THEN <<Dr, Pu>> ELSE Undefined],
                             DefaultPage, DefaultLimit)
           places == PlaceholdersOf(q.whereConditions)
       IN /\ Numbered(places \o <<q.limitAt, q.offsetAt>>, Len(q.queryParams))
          /\ \A c \in DOMAIN q.whereConditions :
               \A k \in DOMAIN q.whereConditions[c].placeholders :
                 q.queryParams[q.whereConditions[c].placeholders[k]]
                   = q.whereConditions[c].value
          /\ q.queryParams[q.limitAt] = DefaultLimit
          /\ q.queryParams[q.offsetAt] = 0
          /\ Numbered(places, Len(q.countParams))
          /\ q.countParams = SubSeq(q.queryParams, 1, Len(q.countParams))

(* C20: a text search over k columns adds one group in parentheses with k  *)
(* placeholders, one per column and each a number of its own, pushes the   *)
(* wrapped search value once for each of them, and moves the counter on by *)
(* k.                                                                      *)
C20_TextSearchConsumesK ==
  [][(Len(qb'.conditions) = Len(qb.conditions) + 1
        /\ qb'.conditions[Len(qb'.conditions)].group) =>
          LET c == qb'.conditions[Len(qb'.conditions)]
              k == Len(c.fields)
          IN /\ c.placeholders = [i \in 1..k |-> qb.paramCount + i - 1]
             /\ Len(qb'.params) = Len(qb.params) + k
             /\ \A i \in 1..k :
                  /\ qb'.params[c.placeholders[i]] = qb'.params[Len(qb'.params)]
                  /\ Head(qb'.params[c.placeholders[i]]) = "%"
             /\ qb'.paramCount = qb.paramCount + k
    ]_vars

(* The rules of a registration body, each taken by itself, that a body     *)
(* violates, by the message of the rule.                                   *)
RegistrationViolations(body) ==
  {m \in {"Username is required",
          "Username must be between 3 and 50 characters",
          "Username can only contain letters, numbers, and underscores",
          "Email is required",
          "Please provide a valid email address",
          "Password is required",
          "Password must be at least 6 characters long",
          "Password must contain at least one uppercase letter, one lowercase letter, and one number",
          "First name cannot exceed 50 characters",
          "Last name cannot exceed 50 characters"} :
     \/ m = "Username is required" /\ ~Truthy(body.username)
     \/ /\ m = "Username must be between 3 and 50 characters"
        /\ Truthy(body.username)
        /\ (Len(body.username) < MinUsernameLen \/ Len(body.username) > MaxUsernameLen)
     \/ /\ m = "Username can only contain letters, numbers, and underscores"
        /\ Truthy(body.username)
        /\ \E i \in DOMAIN body.username : ~WordChar(body.username[i])
     \/ m = "Email is required" /\ ~Truthy(body.email)
     \/ /\ m = "Please provide a valid email address"
        /\ Truthy(body.email)
        /\ ~EmailRegex(body.email)
     \/ m = "Password is required" /\ ~Truthy(body.password)
     \/ /\ m = "Password must be at least 6 characters long"
        /\ Truthy(body.password)
        /\ Len(body.password) < MinPasswordLen
     \/ /\ m = "Password must contain at least one uppercase letter, one lowercase letter, and one number"
        /\ Truthy(body.password)
        /\ ~PasswordRegex(body.password)
     \/ /\ m = "First name cannot exceed 50 characters"
        /\ Truthy(body.firstName)
        /\ Len(body.firstName) > MaxNameLen
     \/ /\ m = "Last name cannot exceed 50 characters"
        /\ Truthy(body.lastName)
        /\ Len(body.lastName) > MaxNameLen}

PostViolations(body) ==
  {m \in {"Title is required", "Title cannot exceed 255 characters",
          "Content is required", "Status must be one of: draft, published, archived"} :
     \/ m = "Title is required" /\ ~Truthy(body.title)
     \/ /\ m = "Title cannot exceed 255 characters"
        /\ Truthy(body.title)
        /\ Len(body.title) > MaxTitleLen
     \/ m = "Content is required" /\ ~Truthy(body.content)
     \/ /\ m = "Status must be one of: draft, published, archived"
        /\ Truthy(body.status)
        /\ body.status \notin PostStatuses}

ListsAll(errors, violations) ==
  \A m \in violations : \E i \in DOMAIN errors : errors[i] = m

(* C21: a registration body, or the body of a post creation that passed    *)
(* auth, that violates some rule is answered 400 with an errors list that  *)
(* holds the message of every rule it violates, and the store stays as it  *)
(* was.                                                                    *)
C21_AllViolationsListed ==
  [][/\ (lastReq'.op = "register" /\ RegistrationViolations(lastReq'.body) # {}) =>
          /\ response'.status = 400
          /\ ListsAll(response'.errors, RegistrationViolations(lastReq'.body))
          /\ StoreUnchanged
     /\ (/\ lastReq'.op = "createPost"
         /\ Authenticated(lastReq', users)
         /\ PostViolations(lastReq'.body) # {}) =>
          /\ response'.status = 400
          /\ ListsAll(response'.errors, PostViolations(lastReq'.body))
          /\ StoreUnchanged
    ]_vars

(* C22: the error handler answers a uniqueness, foreign-key or not-null    *)
(* error of the store with 400 and the message of that class, the          *)
(* uniqueness message naming the email only for the email constraint and   *)
(* the username only for the username constraint, and any other store      *)
(* error with 500 and a generic message; and no response to a request on   *)
(* posts says that a username exists.                                      *)
C22_StoreErrorsMapped ==
  /\ \A constraint \in {"users_email_key", "users_username_key", "posts_slug_key"} :
       LET r == errorHandler(PgError("23505", constraint))
       IN /\ r.status = 400
          /\ (r.message = "Email already exists") = (constraint = "users_email_key")
          /\ (r.message = "Username already exists") = (constraint = "users_username_key")
  /\ errorHandler(PgError("23503", "posts_author_id_fkey")).status = 400
  /\ errorHandler(PgError("23503", "posts_author_id_fkey")).message
       = "Referenced record not found"
  /\ errorHandler(PgError("23502", "")).status = 400
  /\ errorHandler(PgError("23502", "")).message = "Required field is missing"
  /\ \A code \in {"42703", "22P02", "57014"} :
       /\ errorHandler(PgError(code, "")).status = 500
       /\ errorHandler(PgError(code, "")).message = "Database error"
  /\ lastReq.op \in {"createPost", "updatePost", "deletePost", "getPostById"}
       => response.message \notin UsernameTakenMessages

(* C23: every response sent carries the keys success and message, beside   *)
(* which only data and errors may stand.                                   *)
C23_UniformEnvelope ==
  ~Idle =>
    /\ {"success", "message"} \subseteq response.keys
    /\ response.keys \subseteq {"success", "message", "data", "errors"}

(* C24: the stored posts have pairwise distinct slugs after every step; a  *)
(* createPost, or an updatePost of an own post with a title, that passes   *)
(* auth and validation and whose slug, made of the title and the clock, is *)
(* the slug of another stored post is answered with a 4xx status and       *)
(* leaves both tables as they were.                                        *)
SlugsDistinct(ptbl) ==
  \A i, j \in DOMAIN ptbl : i # j => ptbl[i].slug # ptbl[j].slug

SlugTaken(title, t, except) ==
  \E i \in (DOMAIN posts) \ except : posts[i].slug = SlugAt(title, t)

C24_SlugsStayDistinct ==
  [][/\ SlugsDistinct(posts')
     /\ (/\ lastReq'.op \in {"createPost", "updatePost"}
         /\ Authenticated(lastReq', users)
         /\ validatePost(lastReq'.body) = <<>>
         /\ \/ /\ lastReq'.op = "createPost"
               /\ SlugTaken(lastReq'.body.title, now', {})
            \/ /\ lastReq'.op = "updatePost"
               /\ lastReq'.id \in DOMAIN posts
               /\ posts[lastReq'.id].author_id = lastReq'.hdr.id
               /\ SlugTaken(lastReq'.body.title, now', {lastReq'.id}))
        => /\ response'.status \in 400..499
           /\ posts' = posts
           /\ users' = users
    ]_vars

(* An update has just been refused because the slug of its title is that   *)
(* of the other post.                                                      *)
C24_Witness ==
  /\ lastReq.op = "updatePost"
  /\ validatePost(lastReq.body) = <<>>
  /\ response.status = 400
  /\ lastReq.id \in DOMAIN posts
  /\ \E i \in (DOMAIN posts) \ {lastReq.id} : posts[i].slug = SlugAt(lastReq.body.title, now)
  /\ posts[lastReq.id].slug # SlugAt(lastReq.body.title, now)

(* The place of a phase in the order of the life of a request.             *)
PhaseRank(phase) ==
  CASE phase = "Received" -> 1 [] phase = "Authenticated" -> 2
    [] phase = "Validated" -> 3 [] phase = "Authorized" -> 4
    [] phase = "Executed" -> 5 [] phase = "Responded" -> 6
    [] OTHER -> 0

Ended(f) == f.phase \in {"Responded", "Errored"}

(* One step as the request of slot s sees it.                              *)
LifecycleStep(s) ==
  LET a == flight[s]
      b == flight'[s]
  IN /\ b.sent <= 1
     /\ Ended(b) = (b.sent = 1)
     /\ (Ended(a) /\ b.phase # "none") => b = a
     /\ (a.phase # b.phase /\ ~Ended(a)) =>
          /\ b.phase # "none"
          /\ b.phase # "Errored" => PhaseRank(b.phase) > PhaseRank(a.phase)
          /\ b.phase = "Responded" => a.phase = "Executed"
          /\ b.phase = "Executed" => a.phase = "Authorized"
          /\ b.phase = "Authorized" =>
               a.phase = IF a.op = "updatePost" THEN "Validated" ELSE "Authenticated"
     /\ (a # b /\ (posts' # posts \/ users' # users)) =>
          a.phase = "Authorized" /\ b.phase = "Executed"

(* C25: a request goes through its phases in their order, where the check  *)
(* of the owner follows validation and the write follows both; it may end  *)
(* in Errored from any phase before Responded and then stays there; it     *)
(* sends one response, on ending, and no other; it writes to the store     *)
(* only in the step from Authorized to Executed; and once received it      *)
(* does end, in Responded or in Errored.                                   *)
C25_Lifecycle ==
  /\ [][\A s \in 1..MaxFlight : LifecycleStep(s)]_vars
  /\ \A s \in 1..MaxFlight : (flight[s].phase = "Received") ~> Ended(flight[s])

(* An update has been answered while a request beside it ended in error.   *)
C25_Witness ==
  /\ flight[1].op = "updatePost"
  /\ flight[1].phase = "Responded"
  /\ flight[1].response.status = 200
  /\ flight[2].phase = "Errored"

(* C28: an update or a delete of a post by its author, whatever other      *)
(* request on the post runs between its load and its write, ends with 200  *)
(* or 404 and never with a server error (401, 400 and 403 answer the       *)
(* requests that are not a valid request of the author); and an update     *)
(* answered 200 has written a row that was there.                          *)
C28_InterleavedWritesEndCleanly ==
  \A s \in 1..MaxFlight :
    Ended(flight[s]) =>
      /\ flight[s].response.status \in {200, 400, 401, 403, 404}
      /\ (flight[s].op = "updatePost" /\ flight[s].response.status = 200) =>
           flight[s].response.posts # <<>>

(* C26: a list answers only after both of its queries have completed,      *)
(* with the rows of the one and the count of the other; when a query       *)
(* fails the request fails and carries no rows; and whatever creations and *)
(* deletions run beside it, a list that is answered returns no more items  *)
(* than the totalCount it returns.                                         *)
C26_ItemsWithinTotalCount ==
  \A s \in 1..MaxFlight :
    flight[s].op = "getAllPosts" =>
      /\ flight[s].phase \in {"Executed", "Responded"} =>
           flight[s].rows # <<>> /\ flight[s].count # <<>>
      /\ flight[s].phase = "Errored" =>
           flight[s].response.posts = <<>> /\ flight[s].response.paging = <<>>
      /\ flight[s].phase = "Responded" =>
           Len(flight[s].response.posts) <= flight[s].response.paging[1].totalCount

EmailTakenMessages == {"User with this email already exists", "Email already exists"}

SameAccount(a, b) == a.email = b.email \/ a.username = b.username

(* C27: whatever way registrations that carry one email, or one username,  *)
(* interleave, no two rows share an email or a username; no two of them    *)
(* are answered 201; every row that is stored belongs to a registration    *)
(* that holds it and answers 201 or has answered 201; and every other      *)
(* registration that passes validation is answered 400 with a message that *)
(* names a field of its body held by a stored row, never 500.              *)
C27_OneRegistrationWins ==
  /\ \A i, j \in DOMAIN users :
       i # j => users[i].email # users[j].email /\ users[i].username # users[j].username
  /\ \A i \in DOMAIN users :
       \/ \E s \in 1..MaxFlight :
            /\ flight[s].op = "register"
            /\ flight[s].phase = "Executed"
            /\ flight[s].user[1].id = i
       \/ \E p \in tokens : p.id = i
  /\ \A s \in 1..MaxFlight :
       (flight[s].op = "register" /\ Ended(flight[s])) =>
         /\ flight[s].response.status \in {201, 400}
         /\ flight[s].response.status = 201 =>
              \E i \in DOMAIN users :
                /\ users[i].email = flight[s].body.email
                /\ users[i].username = flight[s].body.username
                /\ flight[s].response.users[1].id = i
         /\ (flight[s].response.status = 400 /\ flight[s].response.errors = <<>>) =>
              \/ /\ flight[s].response.message \in EmailTakenMessages
                 /\ \E i \in DOMAIN users : users[i].email = flight[s].body.email
              \/ /\ flight[s].response.message \in UsernameTakenMessages
                 /\ \E i \in DOMAIN users : users[i].username = flight[s].body.username
  /\ \A s, t \in 1..MaxFlight :
       (/\ s # t
        /\ flight[s].op = "register" /\ flight[t].op = "register"
        /\ SameAccount(flight[s].body, flight[t].body)
        /\ Ended(flight[s]) /\ Ended(flight[t])) =>
         ~(flight[s].response.status = 201 /\ flight[t].response.status = 201)

(* Two registrations with one email passed both lookups; the INSERT of the *)
(* second broke the constraint on the email.                               *)
C27_Witness ==
  \E s, t \in 1..MaxFlight :
    /\ flight[s].op = "register" /\ flight[t].op = "register"
    /\ flight[s].body.email = flight[t].body.email
    /\ flight[s].body.username # flight[t].body.username
    /\ flight[s].response.status = 201
    /\ flight[t].response.status = 400
    /\ flight[t].response.message = "Email already exists"

AuthRequiredOps ==
  {"getProfile", "updateProfile", "getAllUsers", "getUserById", "getUserPosts",
   "deleteUser", "createPost", "updatePost", "deletePost"}

(* A request that carries the unexpired token of account i.                *)
CarriesTokenOf(req, i) ==
  /\ req.op \in AuthRequiredOps
  /\ jwtVerify(req.hdr).ok
  /\ jwtVerify(req.hdr).decoded.id = i

OutsideExecute ==
  mig.pc \in {"idle", "createTable", "readdir", "getExecuted", "loop", "readFile",
              "connect", "done", "failed"}

(* C30: what the database holds of a migration is both its effects and its *)
(* row in migrations, once, or neither; outside executeMigration, whether  *)
(* it returned or threw, no transaction is open and no client is checked   *)
(* out; a migration is committed only when it ends in .sql, was not        *)
(* recorded, and every .sql file of the directory that sorts before it is  *)
(* recorded; and once a step of a run has failed the run commits nothing   *)
(* more and ends as failed.                                                *)
C30_MigrationsAllOrNothing ==
  /\ [](\A n \in FileNames :
          /\ mig.effects[n] <= 1
          /\ (mig.effects[n] = 1) = (n \in mig.table))
  /\ [](OutsideExecute => mig.clients = 0 /\ mig.txn = NoTxn)
  /\ [][\A n \in FileNames : mig'.effects[n] # mig.effects[n] =>
          /\ n = Current
          /\ EndsWithSql(n)
          /\ n \notin mig.table
          /\ \A m \in mig.dir : (EndsWithSql(m) /\ Before(m, n)) => m \in mig.table]_vars
  /\ [][(mig.threw \/ mig.pc \in {"rollback", "failed"}) =>
          /\ mig'.effects = mig.effects
          /\ mig'.table = mig.table
          /\ mig'.pc \in {"release", "failed", "createTable"}
          /\ mig'.pc = "createTable" => mig.pc = "failed"]_vars

(* A run of three migrations has failed at the second: the first is        *)
(* committed, the second and the third are not, and the client is back in  *)
(* the pool.                                                               *)
C30_Witness ==
  /\ mig.pc = "failed"
  /\ mig.threw
  /\ Len(mig.files) >= 3
  /\ mig.idx = 2
  /\ mig.effects[mig.files[1]] = 1
  /\ mig.files[2] \notin mig.table
  /\ mig.files[3] \notin mig.table
  /\ mig.clients = 0

====
